---- MODULE Spec2Model ----
(***************************************************************************)
(* A model of the dialectical-debate graph core: the argument graph        *)
(* (DebateDAG), its JSON persistence, the linearization engine, the        *)
(* completion detector (NodeCreationDetector) and the session orchestrator *)
(* (DebateSession.process_passage / process_branch).                       *)
(***************************************************************************)
EXTENDS Integers, Sequences, FiniteSets, TLC

VARIABLES
    nodes,       \* DebateDAG.nodes: the id -> node dict, as its values in insertion order
    edges,       \* DebateDAG.edges: the list of Edge objects
    metadata,    \* DebateDAG.metadata
    last,        \* the operation most recently called
    ret,         \* what that call returned or raised
    order,       \* the list LinearizationEngine.linearize returned (when last = "linearize")
    file,        \* the graph path: NoFile, or the JSON document last written to it
    transcript,  \* the List[DebateTurn] handed to the completion detector
    question,    \* the branch_question argument (None for a main debate)
    max_turns,   \* NodeCreationDetector.max_turns
    verdict,     \* what check_completion returned for this transcript, or Unchecked
    sess,        \* DebateSession: the debate in progress and the bookkeeping of its nodes
    selection,   \* BranchSelector: the last select_branches call, its arguments and its result
    stub,        \* a BranchStub and the calls made on it
    monitor      \* DebateMonitor: flagged_tensions, the clock, and the last call on it

graphVars == <<nodes, edges, metadata, order, file>>
detVars == <<transcript, question, max_turns, verdict>>
sideVars == <<selection, stub, monitor>>
vars == <<nodes, edges, metadata, last, ret, order, file,
          transcript, question, max_turns, verdict, sess, selection, stub, monitor>>

----------------------------------------------------------------------------
(* Bounds of the model *)

MaxGraphSize == 4  \* nodes plus edges of a graph built through add_node / add_edge
MaxLinSize == 5    \* nodes plus edges of a graph that is linearized
MaxSavedSize == 4  \* nodes plus edges of a graph that is saved and loaded

None == "<None>"
\* no check_completion call has been made on the transcript as it is now
Unchecked == <<>>
\* the graph path holds no file; a written file is the one-element list of its document
NoFile == <<>>

----------------------------------------------------------------------------
(* Generic helpers for Python lists, dicts and sorted() *)

Range(s) == {s[i] : i \in 1..Len(s)}

RECURSIVE SetToList(_)
\* list(a_set): some enumeration of the set's members
SetToList(S) ==
    IF S = {} THEN <<>>
    ELSE LET x == CHOOSE y \in S : TRUE IN <<x>> \o SetToList(S \ {x})

RECURSIVE InsertByCreated(_, _)
\* insert node n after every node whose created_at is <= its own: keeps sorted() stable
InsertByCreated(s, n) ==
    IF s = <<>> THEN <<n>>
    ELSE IF Head(s).created_at <= n.created_at
         THEN <<Head(s)>> \o InsertByCreated(Tail(s), n)
         ELSE <<n>> \o s

RECURSIVE SortedByCreated(_)
\* sorted(s, key=lambda n: n.created_at): ascending and stable
SortedByCreated(s) ==
    IF s = <<>> THEN <<>>
    ELSE InsertByCreated(SortedByCreated(SubSeq(s, 1, Len(s) - 1)), s[Len(s)])

----------------------------------------------------------------------------
(* debate_graph.py: NodeType, EdgeType, ArgumentNode, Edge *)

\* class NodeType(Enum): the (member, value) pairs
NodeType ==
    {<<"SYNTHESIS", "synthesis">>, <<"IMPASSE", "impasse">>, <<"LEMMA", "lemma">>,
     <<"QUESTION", "question">>, <<"EXPLORATION", "exploration">>,
     <<"CLARIFICATION", "clarification">>}

\* class EdgeType(Enum): the (member, value) pairs
EdgeType ==
    {<<"BRANCHES_FROM", "branches_from">>, <<"CONTRADICTS", "contradicts">>,
     <<"ELABORATES", "elaborates">>}

\* member.value
EnumValue(enum, member) == (CHOOSE p \in enum : p[1] = member)[2]

\* NodeType(value) / EdgeType(value): the member that has this value
EnumByValue(enum, value) == (CHOOSE p \in enum : p[2] = value)[1]

\* isoformat(timespec="seconds"): the fraction is never printed
IsoFormat_Seconds(t) == <<t \div 1000000>>

\* datetime.isoformat(): the fraction is printed only when microsecond /= 0
\* (created_at is a count of microseconds)
IsoFormat(t) ==
    IF t % 1000000 = 0 THEN <<t \div 1000000>>
    ELSE <<t \div 1000000, t % 1000000>>

\* datetime.fromisoformat(): a missing fraction reads as microsecond 0
FromIsoFormat(s) == s[1] * 1000000 + (IF Len(s) = 2 THEN s[2] ELSE 0)

\* the created_at values the model draws from: 0.5 s apart, so that some carry
\* a fraction and some do not
TimeOf(k) == k * 500000

\* ArgumentNode(...): two payloads, a main-debate node and a branch-debate node
ArgumentNode(id, v, t) ==
    [node_id |-> id,
     node_type |-> IF v = 1 THEN "EXPLORATION" ELSE IF v = 2 THEN "SYNTHESIS" ELSE "IMPASSE",
     topic |-> IF v = 1 THEN "departure" ELSE "thirty years",
     resolution |-> IF v = 1 THEN "unresolved tension" ELSE "resolved",
     passage |-> IF v = 1 THEN "When Zarathustra" ELSE None,
     branch_question |-> IF v = 1 THEN None ELSE "What does thirty signify?",
     theme_tags |-> IF v = 1 THEN {"departure", "meaning"} ELSE {},
     key_claims |-> IF v = 1 THEN <<"literal", "symbolic">> ELSE <<>>,
     created_at |-> TimeOf(t),
     turns_data |-> IF v = 1 THEN <<>>
                    ELSE <<[agent_name |-> "Literalist", content |-> "He came down",
                            round_num |-> 1]>>]

\* ArgumentNode.to_dict
NodeToDict(n) ==
    [node_id |-> n.node_id,
     node_type |-> EnumValue(NodeType, n.node_type),
     topic |-> n.topic,
     resolution |-> n.resolution,
     passage |-> n.passage,
     branch_question |-> n.branch_question,
     theme_tags |-> SetToList(n.theme_tags),
     key_claims |-> n.key_claims,
     created_at |-> IsoFormat(n.created_at),
     turns_data |-> n.turns_data]

\* ArgumentNode.from_dict
NodeFromDict(d) ==
    [node_id |-> d.node_id,
     node_type |-> EnumByValue(NodeType, d.node_type),
     topic |-> d.topic,
     resolution |-> d.resolution,
     passage |-> d.passage,
     branch_question |-> d.branch_question,
     theme_tags |-> Range(d.theme_tags),
     key_claims |-> d.key_claims,
     created_at |-> FromIsoFormat(d.created_at),
     turns_data |-> d.turns_data]

\* Edge(...): confidence in hundredths; two payloads for the same triple
Edge(from, to, kind, v) ==
    [from_node_id |-> from, to_node_id |-> to, edge_type |-> kind,
     description |-> IF v = 1 THEN None ELSE "Branch debate on age",
     confidence |-> IF v = 1 THEN 100 ELSE 80]

\* Edge.to_dict
EdgeToDict(e) ==
    [from_node_id |-> e.from_node_id,
     to_node_id |-> e.to_node_id,
     edge_type |-> EnumValue(EdgeType, e.edge_type),
     description |-> e.description,
     confidence |-> e.confidence]

\* Edge.from_dict
EdgeFromDict(d) ==
    [from_node_id |-> d.from_node_id,
     to_node_id |-> d.to_node_id,
     edge_type |-> EnumByValue(EdgeType, d.edge_type),
     description |-> d.description,
     confidence |-> d.confidence]

----------------------------------------------------------------------------
(* debate_graph.py: DebateDAG *)

\* the keys of the nodes dict
NodeIdsOf(ns) == {ns[i].node_id : i \in 1..Len(ns)}

\* self.nodes[node_id]
NodeById(ns, id) == ns[CHOOSE i \in 1..Len(ns) : ns[i].node_id = id]

\* self.nodes[node.node_id] = node: a new key goes last, an old key keeps its place
DictSet(ns, n) ==
    IF n.node_id \in NodeIdsOf(ns)
    THEN [i \in 1..Len(ns) |-> IF ns[i].node_id = n.node_id THEN n ELSE ns[i]]
    ELSE Append(ns, n)

\* DebateDAG.__init__: the metadata of a fresh graph
NewMetadata == [created_at |-> IsoFormat(TimeOf(1)), version |-> "0.3.0"]

\* the test of the duplicate-edge loop of add_edge
SameTriple(a, b) ==
    /\ a.from_node_id = b.from_node_id
    /\ a.to_node_id = b.to_node_id
    /\ a.edge_type = b.edge_type

\* add_node without the membership test: the dict assignment overwrites
AddNodeCall_Overwrite(ns, n) == [ret |-> "return", nodes |-> DictSet(ns, n)]

\* DebateDAG.add_node: how the call ends and the nodes dict it leaves
AddNodeCall(ns, n) ==
    IF n.node_id \in NodeIdsOf(ns)
    THEN [ret |-> "ValueError: already exists", nodes |-> ns]
    ELSE [ret |-> "return", nodes |-> DictSet(ns, n)]

\* add_edge without the duplicate loop
AddEdgeCall_NoDuplicateLoop(ns, es, e) ==
    IF e.from_node_id \notin NodeIdsOf(ns)
    THEN [ret |-> "ValueError: source not found", edges |-> es]
    ELSE IF e.to_node_id \notin NodeIdsOf(ns)
    THEN [ret |-> "ValueError: target not found", edges |-> es]
    ELSE [ret |-> "return: appended", edges |-> Append(es, e)]

\* add_edge that validates the source only
AddEdgeCall_NoTargetTest(ns, es, e) ==
    IF e.from_node_id \notin NodeIdsOf(ns)
    THEN [ret |-> "ValueError: source not found", edges |-> es]
    ELSE IF \E i \in 1..Len(es) : SameTriple(es[i], e)
    THEN [ret |-> "return: duplicate skipped", edges |-> es]
    ELSE [ret |-> "return: appended", edges |-> Append(es, e)]

\* add_edge that puts the edge at the head of the list (mutation)
AddEdgeCall_Prepending(ns, es, e) ==
    IF e.from_node_id \notin NodeIdsOf(ns)
    THEN [ret |-> "ValueError: source not found", edges |-> es]
    ELSE IF e.to_node_id \notin NodeIdsOf(ns)
    THEN [ret |-> "ValueError: target not found", edges |-> es]
    ELSE IF \E i \in 1..Len(es) : SameTriple(es[i], e)
    THEN [ret |-> "return: duplicate skipped", edges |-> es]
    ELSE [ret |-> "return: appended", edges |-> <<e>> \o es]

\* DebateDAG.add_edge: how the call ends and the edge list it leaves
AddEdgeCall(ns, es, e) ==
    IF e.from_node_id \notin NodeIdsOf(ns)
    THEN [ret |-> "ValueError: source not found", edges |-> es]
    ELSE IF e.to_node_id \notin NodeIdsOf(ns)
    THEN [ret |-> "ValueError: target not found", edges |-> es]
    ELSE IF \E i \in 1..Len(es) : SameTriple(es[i], e)
    THEN [ret |-> "return: duplicate skipped", edges |-> es]
    ELSE [ret |-> "return: appended", edges |-> Append(es, e)]

\* DebateDAG.save: the document json.dump writes
DagSave(ns, es, md) ==
    [metadata |-> md,
     nodes |-> [i \in 1..Len(ns) |-> NodeToDict(ns[i])],
     edges |-> [i \in 1..Len(es) |-> EdgeToDict(es[i])]]

RECURSIVE LoadNodes(_, _)
\* the node loop of DebateDAG.load
LoadNodes(acc, ds) ==
    IF ds = <<>> THEN acc
    ELSE LoadNodes(DictSet(acc, NodeFromDict(Head(ds))), Tail(ds))

\* DebateDAG.load: the graph read back from a document
DagLoad(data) ==
    [nodes |-> LoadNodes(<<>>, data.nodes),
     edges |-> [i \in 1..Len(data.edges) |-> EdgeFromDict(data.edges[i])],
     metadata |-> data.metadata]

----------------------------------------------------------------------------
(* linearization.py: LinearizationEngine *)

\* in_degree[node_id] after the edge loop of _topological_sort
InDegree(ns, es) ==
    [id \in NodeIdsOf(ns) |-> Cardinality({i \in 1..Len(es) : es[i].to_node_id = id})]

RECURSIVE AdjList(_, _)
\* adj_list[id] after the edge loop: the targets of id's edges, in edge-list order
AdjList(es, id) ==
    IF es = <<>> THEN <<>>
    ELSE (IF Head(es).from_node_id = id THEN <<Head(es).to_node_id>> ELSE <<>>)
         \o AdjList(Tail(es), id)

\* the initial queue: the nodes of in-degree 0 in dict order, then sorted by created_at
InitialQueue(ns, es) ==
    LET deg == InDegree(ns, es)
        zero == SelectSeq(ns, LAMBDA n : deg[n.node_id] = 0)
        sorted == SortedByCreated(zero)
    IN [i \in 1..Len(sorted) |-> sorted[i].node_id]

RECURSIVE ReduceNeighbors(_, _, _)
\* the inner for loop: every neighbor loses one in-degree and joins the queue at zero
ReduceNeighbors(neighbors, queue, deg) ==
    IF neighbors = <<>> THEN [queue |-> queue, deg |-> deg]
    ELSE LET nb == Head(neighbors)
             d == [deg EXCEPT ![nb] = deg[nb] - 1]
         IN ReduceNeighbors(Tail(neighbors),
                            IF d[nb] = 0 THEN Append(queue, nb) ELSE queue, d)

RECURSIVE KahnLoop_PopRight(_, _, _, _)
\* the while loop with queue.pop() in place of queue.popleft()
KahnLoop_PopRight(es, queue, deg, result) ==
    IF queue = <<>> THEN result
    ELSE LET node_id == queue[Len(queue)]
             r == ReduceNeighbors(AdjList(es, node_id),
                                  SubSeq(queue, 1, Len(queue) - 1), deg)
         IN KahnLoop_PopRight(es, r.queue, r.deg, Append(result, node_id))

RECURSIVE KahnLoop(_, _, _, _)
\* the while loop of _topological_sort
KahnLoop(es, queue, deg, result) ==
    IF queue = <<>> THEN result
    ELSE LET node_id == Head(queue)
             r == ReduceNeighbors(AdjList(es, node_id), Tail(queue), deg)
         IN KahnLoop(es, r.queue, r.deg, Append(result, node_id))

\* the result list of _topological_sort before its length test
KahnResult(ns, es) == KahnLoop(es, InitialQueue(ns, es), InDegree(ns, es), <<>>)

\* _topological_sort raises ValueError("Cycle detected in graph")
CycleDetected(ns, es) == Len(KahnResult(ns, es)) /= Len(ns)

\* _chronological_order without the sort: dict order
ChronologicalOrder_Unsorted(ns) == [i \in 1..Len(ns) |-> ns[i].node_id]

\* LinearizationEngine._chronological_order
ChronologicalOrder(ns) ==
    LET sorted == SortedByCreated(ns) IN [i \in 1..Len(sorted) |-> sorted[i].node_id]

\* linearize without the fallback: what _topological_sort collected (mutation)
Linearize_NoFallback(ns, es) == KahnResult(ns, es)

\* LinearizationEngine.linearize
Linearize(ns, es) ==
    IF CycleDetected(ns, es) THEN ChronologicalOrder(ns) ELSE KahnResult(ns, es)

----------------------------------------------------------------------------
(* Text: a str is the sequence of its fragments, " " being the space character;  *)
(* `in`, lower(), split() and " ".join() work on the fragments as on characters  *)

\* str.lower(), on one fragment
LowerFragment(f) ==
    CASE f = "We" -> "we"
      [] f = "Alpha" -> "alpha"
      [] OTHER -> f

\* str.lower()
Lower(s) == [i \in 1..Len(s) |-> LowerFragment(s[i])]

\* " ".join(strs)
RECURSIVE JoinSpace(_)
JoinSpace(strs) ==
    IF Len(strs) = 0 THEN <<>>
    ELSE IF Len(strs) = 1 THEN strs[1]
    ELSE strs[1] \o <<" ">> \o JoinSpace(Tail(strs))

\* sub in s
Contains(s, sub) ==
    \E i \in 1..(Len(s) - Len(sub) + 1) : SubSeq(s, i, i + Len(sub) - 1) = sub

\* set(s.split()): the maximal runs of fragments other than the space
RECURSIVE SplitWords(_, _)
SplitWords(s, word) ==
    IF Len(s) = 0 THEN (IF word = <<>> THEN {} ELSE {word})
    ELSE IF s[1] = " "
         THEN (IF word = <<>> THEN {} ELSE {word}) \cup SplitWords(Tail(s), <<>>)
         ELSE SplitWords(Tail(s), Append(word, s[1]))

\* the last n elements of a list: lst[-n:]
LastN(lst, n) == SubSeq(lst, IF Len(lst) > n THEN Len(lst) - n + 1 ELSE 1, Len(lst))

----------------------------------------------------------------------------
(* DebateTurn and NodeCreationDetector *)

DebateTurn(agent_name, content, round_num) ==
    [agent_name |-> agent_name, content |-> content, round_num |-> round_num]

\* [t.content for t in turns]
ContentsOf(turns) == [i \in 1..Len(turns) |-> turns[i].content]

\* NodeCreationDetector.synthesis_markers
synthesis_markers ==
    << <<"we", " ", "agree">>, <<"consensus", " ", "emerges">>, <<"resolved">>,
       <<"synthesis">>, <<"converge", " ", "on">>, <<"common", " ", "ground">> >>

\* NodeCreationDetector.impasse_markers
impasse_markers ==
    << <<"fundamental", " ", "disagreement">>, <<"irreconcilable">>,
       <<"cannot", " ", "be", " ", "resolved">>, <<"remains", " ", "in", " ", "tension">>,
       <<"un", "resolved">>, <<"incompatible">> >>

\* answer_indicators of _question_answered
answer_indicators ==
    << <<"the", " ", "answer">>, <<"resolves", " ", "to">>, <<"we", " ", "find", " ", "that">>,
       <<"synthesis">>, <<"what", " ", "emerged">>, <<"resolution">> >>

\* any(marker in text for marker in markers)
AnyMarkerIn(markers, text) == \E i \in 1..Len(markers) : Contains(text, markers[i])

\* an Optional[str] argument: None, or a str
NoQuestion == <<>>
Some(s) == <<s>>

\* the truth value of an Optional[str]: neither None nor ""
Truthy(opt) == opt /= NoQuestion /\ opt[1] /= <<>>

\* NodeCreationDetector._question_answered
QuestionAnswered(turns, q) ==
    IF Len(turns) < 3 THEN FALSE
    ELSE AnyMarkerIn(answer_indicators, Lower(JoinSpace(ContentsOf(LastN(turns, 3)))))

\* the words of a window of turns: the union of set(turn.content.lower().split())
WordsOf(turns) == UNION {SplitWords(Lower(turns[i].content), <<>>) : i \in 1..Len(turns)}

\* NodeCreationDetector._detect_repetition: overlap / total > 0.75
DetectRepetition(turns) ==
    IF Len(turns) < 6 THEN FALSE
    ELSE LET recent_words == WordsOf(LastN(turns, 3))
             previous_words == WordsOf(SubSeq(turns, Len(turns) - 5, Len(turns) - 3))
             overlap == Cardinality(recent_words \cap previous_words)
             total == Cardinality(recent_words \cup previous_words)
         IN IF recent_words = {} \/ previous_words = {} THEN FALSE
            ELSE 4 * overlap > 3 * total

\* recent_text of check_completion: the last two turns, joined and lower-cased
RecentText(turns) == Lower(JoinSpace(ContentsOf(LastN(turns, 2))))

\* check_completion with the synthesis markers tested before the impasse markers
CheckCompletion_SynthesisFirst(turns, branch_question, maxTurns) ==
    IF Len(turns) = 0 THEN <<FALSE, None>>
    ELSE IF AnyMarkerIn(synthesis_markers, RecentText(turns)) THEN <<TRUE, "SYNTHESIS">>
    ELSE IF AnyMarkerIn(impasse_markers, RecentText(turns)) THEN <<TRUE, "IMPASSE">>
    ELSE IF Truthy(branch_question) /\ QuestionAnswered(turns, branch_question)
         THEN <<TRUE, "SYNTHESIS">>
    ELSE IF DetectRepetition(turns) THEN <<TRUE, "IMPASSE">>
    ELSE IF Len(turns) >= maxTurns THEN <<TRUE, "EXPLORATION">>
    ELSE <<FALSE, None>>

\* check_completion with the turn budget tested as len(transcript) > max_turns
CheckCompletion_BudgetExceeded(turns, branch_question, maxTurns) ==
    IF Len(turns) = 0 THEN <<FALSE, None>>
    ELSE IF AnyMarkerIn(impasse_markers, RecentText(turns)) THEN <<TRUE, "IMPASSE">>
    ELSE IF AnyMarkerIn(synthesis_markers, RecentText(turns)) THEN <<TRUE, "SYNTHESIS">>
    ELSE IF Truthy(branch_question) /\ QuestionAnswered(turns, branch_question)
         THEN <<TRUE, "SYNTHESIS">>
    ELSE IF DetectRepetition(turns) THEN <<TRUE, "IMPASSE">>
    ELSE IF Len(turns) > maxTurns THEN <<TRUE, "EXPLORATION">>
    ELSE <<FALSE, None>>

\* NodeCreationDetector.check_completion: (is_complete, node_type)
CheckCompletion(turns, branch_question, maxTurns) ==
    IF Len(turns) = 0 THEN <<FALSE, None>>
    ELSE IF AnyMarkerIn(impasse_markers, RecentText(turns)) THEN <<TRUE, "IMPASSE">>
    ELSE IF AnyMarkerIn(synthesis_markers, RecentText(turns)) THEN <<TRUE, "SYNTHESIS">>
    ELSE IF Truthy(branch_question) /\ QuestionAnswered(turns, branch_question)
         THEN <<TRUE, "SYNTHESIS">>
    ELSE IF DetectRepetition(turns) THEN <<TRUE, "IMPASSE">>
    ELSE IF Len(turns) >= maxTurns THEN <<TRUE, "EXPLORATION">>
    ELSE <<FALSE, None>>

----------------------------------------------------------------------------
(* The graph API as operations on the state *)

\* the node ids a call is made with: every id of the dict and one id that is not in
\* it (fresh ids are numbered in order of insertion)
NodeIdInputs(ns) == NodeIdsOf(ns) \cup {Len(ns) + 1}

\* the created_at values of the nodes that are linearized
Times == {1, 2, 3}

\* dag.add_node(node)
add_node(n) ==
    /\ nodes' = AddNodeCall(nodes, n).nodes
    /\ ret' = AddNodeCall(nodes, n).ret
    /\ last' = "add_node"
    /\ order' = <<>>
    /\ UNCHANGED <<edges, metadata, file>>

\* dag.add_edge(edge)
add_edge(e) ==
    /\ edges' = AddEdgeCall(nodes, edges, e).edges
    /\ ret' = AddEdgeCall(nodes, edges, e).ret
    /\ last' = "add_edge"
    /\ order' = <<>>
    /\ UNCHANGED <<nodes, metadata, file>>

\* LinearizationEngine(dag).linearize()
linearize ==
    /\ order' = Linearize(nodes, edges)
    /\ ret' = IF CycleDetected(nodes, edges) THEN "return: Warning: Cycle detected"
              ELSE "return"
    /\ last' = "linearize"
    /\ UNCHANGED <<nodes, edges, metadata, file>>

\* dag.save(path)
save ==
    /\ file' = <<DagSave(nodes, edges, metadata)>>
    /\ ret' = "return"
    /\ last' = "save"
    /\ order' = <<>>
    /\ UNCHANGED <<nodes, edges, metadata>>

\* dag = DebateDAG.load(path)
load ==
    /\ file /= NoFile
    /\ LET g == DagLoad(file[1])
       IN /\ nodes' = g.nodes
          /\ edges' = g.edges
          /\ metadata' = g.metadata
    /\ ret' = "return"
    /\ last' = "load"
    /\ order' = <<>>
    /\ UNCHANGED file

\* the latest check on the transcript as it is said the debate is complete
SaidComplete(v) == v /= Unchecked /\ v[1]

\* a caller appends the next DebateTurn to its transcript, as the debate loop does
\* while no check has said the debate is complete
append_turn(content) ==
    /\ ~SaidComplete(verdict)
    /\ transcript' = Append(transcript, DebateTurn("Agent", content, Len(transcript) + 1))
    /\ verdict' = Unchecked
    /\ question' = NoQuestion
    /\ last' = "append"
    /\ ret' = "return"
    /\ UNCHANGED max_turns

\* detector.check_completion(transcript, branch_question)
check_completion(branch_question) ==
    /\ verdict' = CheckCompletion(transcript, branch_question, max_turns)
    /\ question' = branch_question
    /\ last' = "check_completion"
    /\ ret' = "return"
    /\ UNCHANGED <<transcript, max_turns>>

----------------------------------------------------------------------------
(* phase3_edges.py: EdgeDetector, and session.py: DebateSession *)

\* Edge(from_node_id, to_node_id, edge_type, description, confidence), the
\* confidence in hundredths
EdgeWith(from, to, kind, description, confidence) ==
    [from_node_id |-> from, to_node_id |-> to, edge_type |-> kind,
     description |-> description, confidence |-> confidence]

\* the Edge of _check_contradiction always running from its first argument (mutation)
ContradictionEdge_FromFirst(node1, node2, total_score) ==
    EdgeWith(node1.node_id, node2.node_id, "CONTRADICTS", "contradicts",
             IF total_score < 100 THEN total_score ELSE 100)

\* the Edge _check_contradiction returns when total_score > 0.5: the newer node
\* contradicts the older one; confidence=min(total_score, 1.0)
ContradictionEdge(node1, node2, total_score) ==
    LET from_node == IF node2.created_at > node1.created_at THEN node2 ELSE node1
        to_node == IF from_node = node2 THEN node1 ELSE node2
    IN EdgeWith(from_node.node_id, to_node.node_id, "CONTRADICTS", "contradicts",
                IF total_score < 100 THEN total_score ELSE 100)

\* what _check_contradiction measures on the texts of a pair of nodes, in thousandths:
\* _count_patterns on the two resolutions, _check_contradictory_claims, and the
\* topic similarity
ContradictionSignal(pattern_score, claim_score, topic_similarity) ==
    [pattern_score |-> pattern_score, claim_score |-> claim_score,
     topic_similarity |-> topic_similarity]

\* total_score of _check_contradiction in ten-thousandths: the weights 0.4, 0.4 and
\* 0.2 in tenths times the scores in thousandths
ContradictionScore(node1, node2, signal) ==
    LET type_opposition ==
            \/ node1.node_type = "SYNTHESIS" /\ node2.node_type = "IMPASSE"
            \/ node1.node_type = "IMPASSE" /\ node2.node_type = "SYNTHESIS"
        type_score == IF signal.topic_similarity > 300 /\ type_opposition THEN 1000 ELSE 0
    IN  signal.pattern_score * 4 + signal.claim_score * 4 + type_score * 2

\* _check_contradiction with "if total_score >= 0.5" (mutation)
CheckContradiction_AtLeast(node1, node2, signal) ==
    LET total_score == ContradictionScore(node1, node2, signal)
    IN  IF total_score >= 5000
        THEN <<ContradictionEdge(node1, node2, total_score \div 100)>> ELSE <<>>

\* EdgeDetector._check_contradiction: <<>> for None. The confidence is kept in
\* hundredths; the scores the model draws make every total a whole number of them
CheckContradiction(node1, node2, signal) ==
    LET total_score == ContradictionScore(node1, node2, signal)
    IN  IF total_score > 5000
        THEN <<ContradictionEdge(node1, node2, total_score \div 100)>> ELSE <<>>

\* the Edge _check_elaboration returns when total_score > 0.4;
\* confidence=min(total_score, 1.0)
ElaborationEdge(earlier_node, later_node, total_score) ==
    EdgeWith(later_node.node_id, earlier_node.node_id, "ELABORATES", "elaborates on",
             IF total_score < 100 THEN total_score ELSE 100)

\* what _check_elaboration measures on a pair of nodes, in thousandths: _count_patterns
\* on the later resolution, the topic similarity, and min(len(shared_tags) / 3, 1.0)
ElaborationSignal(pattern_score, similarity, tag_score) ==
    [pattern_score |-> pattern_score, similarity |-> similarity, tag_score |-> tag_score]

\* EdgeDetector._check_elaboration: <<>> for None
CheckElaboration(earlier_node, later_node, signal) ==
    LET similarity_score == IF signal.similarity > 400 THEN signal.similarity ELSE 0
        is_clarification == later_node.node_type \in {"CLARIFICATION", "LEMMA"}
        type_score == IF is_clarification THEN 500 ELSE 0
        total_score ==
            signal.pattern_score * 3 + similarity_score * 4 + signal.tag_score * 2
                + type_score
    IN  IF total_score > 4000
        THEN <<ElaborationEdge(earlier_node, later_node, total_score \div 100)>>
        ELSE <<>>

\* EdgeDetector._detect_edges_for_node; contra and elab give, for the id of every other
\* node, what the two checks measure on the pair
DetectEdgesForNode(ns, new_node, contra, elab) ==
    LET all_nodes == SortedByCreated(ns)
        Contradicted(x) ==
            /\ x.node_id /= new_node.node_id
            /\ CheckContradiction(new_node, x, contra[x.node_id]) /= <<>>
        Elaborated(x) ==
            /\ x.node_id /= new_node.node_id
            /\ new_node.created_at > x.created_at
            /\ CheckElaboration(x, new_node, elab[x.node_id]) /= <<>>
        cs == SelectSeq(all_nodes, Contradicted)
        es == SelectSeq(all_nodes, Elaborated)
    IN [i \in 1..Len(cs) |-> CheckContradiction(new_node, cs[i], contra[cs[i].node_id])[1]]
       \o [i \in 1..Len(es) |-> CheckElaboration(es[i], new_node, elab[es[i].node_id])[1]]

\* for edge in new_edges: self.dag.add_edge(edge)
RECURSIVE AddEdges(_, _, _)
AddEdges(ns, es, new_edges) ==
    IF new_edges = <<>> THEN es
    ELSE AddEdges(ns, AddEdgeCall(ns, es, Head(new_edges)).edges, Tail(new_edges))

\* the names of the Agent objects of a debate
AgentNames == <<"Literalist", "Symbolist", "Structuralist", "Phenomenologist">>

\* a str as a sequence of fragments: the whole str is one fragment
Text(str) == IF str = "" THEN <<>> ELSE <<str>>

\* what llm_call returns to _generate_topic and _generate_resolution: the text the
\* generator printed, which may be blank
Synthesis(topic, resolution) == [topic |-> topic, resolution |-> resolution]

\* str.strip() of a generated text: a blank text becomes the empty str
Strip(text) == IF text \in {"", " "} THEN "" ELSE text

\* NodeFactory.create_node_from_transcript: the topic and the resolution are what
\* the generator answered, stripped; so are the tags and claims
CreateNodeFromTranscript(id, node_type, turns, passage, branch_question, t, synthesis) ==
    [node_id |-> id,
     node_type |-> node_type,
     topic |-> Strip(synthesis.topic),
     resolution |-> Strip(synthesis.resolution),
     passage |-> passage,
     branch_question |-> branch_question,
     theme_tags |-> {"meaning"},
     key_claims |-> <<"claim">>,
     created_at |-> TimeOf(t),
     turns_data |-> [i \in 1..Len(turns) |->
                        [agent_name |-> turns[i].agent_name, content |-> turns[i].content,
                         round_num |-> turns[i].round_num]]]

\* DebateSession.__init__ on a new session: nothing is being processed
\* (prompt: the turns quoted in the user prompt of the latest llm_call of the debate;
\* ops: the calls the latest process_passage / process_branch made on the graph)
IdleSession == [pc |-> "idle", call |-> None, arg |-> None, parent |-> 0, agents |-> 0,
                max_rounds |-> 0, round_num |-> 0, spoken |-> 0, current_main_node |-> 0,
                prompt |-> <<>>, ops |-> <<>>]

\* the turns _run_debate_with_context quotes in the user prompt of an agent: none in
\* round 1 (the passage or the question only), transcript[-(len(agents)*2):] later
UserPromptTurns(turns, round_num, agents) ==
    IF round_num = 1 THEN <<>> ELSE LastN(turns, agents * 2)

\* the calls on the graph of the end of process_passage / process_branch: add_node,
\* one add_edge for each edge that was appended, and the save that ends the handler
GraphOps(appended) ==
    <<"add_node">> \o [i \in 1..appended |-> "add_edge"] \o <<"save">>

\* the end of a round without the completion check: only the round budget ends the
\* debate (mutation)
DebateOver_RoundsOnly(s, turns, q, maxTurns) == s.round_num = s.max_rounds

\* the end of a round of _run_debate_with_context: the debate is over when a branch
\* debate's check says complete or the rounds are used up
DebateOver(s, turns, q, maxTurns) ==
    \/ s.call = "process_branch" /\ CheckCompletion(turns, q, maxTurns)[1]
    \/ s.round_num = s.max_rounds

\* process_passage(passage, agents, logger, max_rounds) up to the first llm_call
process_passage(passage, agents, max_rounds) ==
    /\ sess.pc = "idle"
    /\ sess' = [sess EXCEPT !.pc = "debating", !.call = "process_passage", !.arg = passage,
                            !.parent = 0, !.agents = agents, !.max_rounds = max_rounds,
                            !.round_num = 1, !.spoken = 0, !.prompt = <<>>, !.ops = <<>>]
    /\ transcript' = <<>>
    /\ question' = NoQuestion
    /\ verdict' = Unchecked
    /\ last' = "process_passage"
    /\ ret' = "running"
    /\ UNCHANGED <<graphVars, max_turns>>

\* process_branch without the test of the parent node
process_branch_NoParentTest(branch_question, parent_node_id, agents, max_rounds) ==
    /\ sess.pc = "idle"
    /\ last' = "process_branch"
    /\ ret' = "running"
    /\ sess' = [sess EXCEPT !.pc = "debating", !.call = "process_branch",
                            !.arg = branch_question, !.parent = parent_node_id,
                            !.agents = agents, !.max_rounds = max_rounds,
                            !.round_num = 1, !.spoken = 0, !.prompt = <<>>,
                            !.ops = <<>>]
    /\ transcript' = <<>>
    /\ question' = Some(Text(branch_question))
    /\ verdict' = Unchecked
    /\ UNCHANGED <<graphVars, max_turns>>

\* process_branch(branch_question, parent_node_id, agents, logger, max_rounds) up to
\* the first llm_call, or to its ValueError
process_branch(branch_question, parent_node_id, agents, max_rounds) ==
    /\ sess.pc = "idle"
    /\ last' = "process_branch"
    /\ IF parent_node_id \notin NodeIdsOf(nodes)
       THEN /\ ret' = "ValueError: parent not found"
            /\ UNCHANGED <<sess, transcript, question, verdict>>
       ELSE /\ ret' = "running"
            /\ sess' = [sess EXCEPT !.pc = "debating", !.call = "process_branch",
                                    !.arg = branch_question, !.parent = parent_node_id,
                                    !.agents = agents, !.max_rounds = max_rounds,
                                    !.round_num = 1, !.spoken = 0, !.prompt = <<>>,
                                    !.ops = <<>>]
            /\ transcript' = <<>>
            /\ question' = Some(Text(branch_question))
            /\ verdict' = Unchecked
    /\ UNCHANGED <<graphVars, max_turns>>

\* one pass of the agent loop of _run_debate_with_context: llm_call answers, the
\* turn is appended, and after the last agent of a round a branch debate is checked
debate_turn(response) ==
    /\ sess.pc = "debating"
    /\ LET turn == DebateTurn(AgentNames[sess.spoken + 1], response, sess.round_num)
           turns == Append(transcript, turn)
           prompt == UserPromptTurns(transcript, sess.round_num, sess.agents)
       IN /\ transcript' = turns
          /\ IF sess.spoken + 1 < sess.agents
             THEN /\ sess' = [sess EXCEPT !.spoken = sess.spoken + 1, !.prompt = prompt]
                  /\ UNCHANGED verdict
             ELSE /\ verdict' = IF sess.call = "process_branch"
                                THEN CheckCompletion(turns, question, max_turns)
                                ELSE verdict
                  /\ sess' = IF DebateOver(sess, turns, question, max_turns)
                             THEN [sess EXCEPT !.pc = "creating", !.prompt = prompt]
                             ELSE [sess EXCEPT !.round_num = sess.round_num + 1, !.spoken = 0,
                                               !.prompt = prompt]
    /\ UNCHANGED <<graphVars, question, max_turns, last, ret>>

\* llm_call raising after the node was added and saved (mutation)
llm_error_AfterSave ==
    /\ sess.pc \in {"debating", "creating"}
    /\ LET id == Len(nodes) + 1
           node == CreateNodeFromTranscript(id, "EXPLORATION", transcript, None, None, id,
                                            Synthesis("topic", "resolution"))
           added == AddNodeCall(nodes, node).nodes
       IN /\ nodes' = added
          /\ file' = <<DagSave(added, edges, metadata)>>
    /\ sess' = [IdleSession EXCEPT !.current_main_node = sess.current_main_node]
    /\ transcript' = <<>>
    /\ question' = NoQuestion
    /\ verdict' = Unchecked
    /\ last' = sess.call
    /\ ret' = "CalledProcessError"
    /\ UNCHANGED <<edges, metadata, order, max_turns>>

\* llm_call raises (the CalledProcessError of the generator): process_passage or
\* process_branch ends with the exception, before anything is added or saved
llm_error ==
    /\ sess.pc \in {"debating", "creating"}
    /\ sess' = [IdleSession EXCEPT !.current_main_node = sess.current_main_node]
    /\ transcript' = <<>>
    /\ question' = NoQuestion
    /\ verdict' = Unchecked
    /\ last' = sess.call
    /\ ret' = "CalledProcessError"
    /\ UNCHANGED <<graphVars, max_turns>>

\* the description of the BRANCHES_FROM edge: f"Branch: {branch_question[:100]}"
BranchDescription(branch_question) ==
    IF branch_question = "Why thirty?" THEN "Branch: Why thirty?" ELSE "Branch: "

\* the BRANCHES_FROM edge of process_branch with a confidence below 1.0 (mutation)
SessionBranchEdge_Scored(parent_node_id, node_id, branch_question) ==
    EdgeWith(parent_node_id, node_id, "BRANCHES_FROM", BranchDescription(branch_question), 90)

\* the BRANCHES_FROM edge running from the new node to its parent (mutation)
SessionBranchEdge_Reversed(parent_node_id, node_id, branch_question) ==
    EdgeWith(node_id, parent_node_id, "BRANCHES_FROM", BranchDescription(branch_question), 100)

\* the BRANCHES_FROM edge process_branch builds: confidence=1.0
SessionBranchEdge(parent_node_id, node_id, branch_question) ==
    EdgeWith(parent_node_id, node_id, "BRANCHES_FROM", BranchDescription(branch_question), 100)

\* the rest of process_passage / process_branch once the debate is over: the node is
\* created and added, a branch gets its BRANCHES_FROM edge, the inferred edges are
\* added, the graph is saved
\* the graph in memory when process_passage / process_branch reaches its self.save():
\* the node is created and added, a branch has its BRANCHES_FROM edge, the inferred
\* edges are added
GraphToSave(synthesis, contra, elab) ==
    LET is_branch == sess.call = "process_branch"
        checked == CheckCompletion(transcript, question, max_turns)
        node_type == IF is_branch /\ checked[2] /= None THEN checked[2] ELSE "EXPLORATION"
        id == Len(nodes) + 1
        node == CreateNodeFromTranscript(id, node_type, transcript,
                                         IF is_branch THEN None ELSE sess.arg,
                                         IF is_branch THEN sess.arg ELSE None, id,
                                         synthesis)
        added == AddNodeCall(nodes, node).nodes
        branch_edge == SessionBranchEdge(sess.parent, id, sess.arg)
        branched == IF is_branch THEN AddEdgeCall(added, edges, branch_edge).edges
                    ELSE edges
        all_edges == AddEdges(added, branched, DetectEdgesForNode(added, node, contra, elab))
    IN  [nodes |-> added, edges |-> all_edges, checked |-> checked, node_id |-> id]

\* the part of the document that is in the file when the write of DagSave is cut short:
\* open(path, 'w') has emptied the file, json.dump has written the metadata, the first
\* n nodes and, once the nodes are out, the first e edges
WrittenPart(document, n, e) ==
    [metadata |-> document.metadata,
     nodes |-> SubSeq(document.nodes, 1, n),
     edges |-> IF n = Len(document.nodes) THEN SubSeq(document.edges, 1, e) ELSE <<>>]

\* the process is killed while the self.save() that ends process_passage /
\* process_branch is writing: the file holds the part written so far, the session
\* object is gone
killed_in_save(synthesis, contra, elab, n, e) ==
    /\ sess.pc = "creating"
    /\ LET g == GraphToSave(synthesis, contra, elab)
           document == DagSave(g.nodes, g.edges, metadata)
       IN /\ n \in 0..Len(document.nodes)
          /\ e \in 0..Len(document.edges)
          /\ n < Len(document.nodes) \/ e < Len(document.edges)
          /\ nodes' = g.nodes
          /\ edges' = g.edges
          /\ file' = <<WrittenPart(document, n, e)>>
    /\ sess' = [sess EXCEPT !.pc = "killed"]
    /\ last' = sess.call
    /\ ret' = "killed"
    /\ order' = <<>>
    /\ UNCHANGED <<metadata, transcript, question, verdict, max_turns>>

create_node(synthesis, contra, elab) ==
    /\ sess.pc = "creating"
    /\ LET is_branch == sess.call = "process_branch"
           g == GraphToSave(synthesis, contra, elab)
       IN /\ nodes' = g.nodes
          /\ edges' = g.edges
          /\ file' = <<DagSave(g.nodes, g.edges, metadata)>>
          /\ verdict' = IF is_branch THEN g.checked ELSE verdict
          /\ sess' = [IdleSession EXCEPT
                          !.current_main_node = IF is_branch THEN sess.current_main_node
                                                ELSE g.node_id,
                          !.ops = GraphOps(Len(g.edges) - Len(edges))]
    /\ transcript' = <<>>
    /\ question' = NoQuestion
    /\ order' = <<>>
    /\ last' = sess.call
    /\ ret' = "return"
    /\ UNCHANGED <<metadata, max_turns>>

----------------------------------------------------------------------------
(* branch_selector: BranchSelector.select_branches and its strategies.
   Scores are in hundredths (0.8 is 80); a TensionFlag is a dataclass, so two
   flags are equal when all their fields are; a call to the generator is one
   step, its response an input. *)

\* TensionFlag: the fields the selector reads; the others are the same in every flag
TensionFlag(flag_id, urgency) == [flag_id |-> flag_id, urgency |-> urgency]

\* lst[:n]
Slice(lst, n) ==
    IF n >= 0
    THEN SubSeq(lst, 1, IF n < Len(lst) THEN n ELSE Len(lst))
    ELSE SubSeq(lst, 1, IF Len(lst) + n > 0 THEN Len(lst) + n ELSE 0)

\* the place of the pair x in a list that sorted(..., reverse=True) keeps stable: after
\* every pair whose key is at least the key of x
InsertDescending(lst, x) ==
    LET n == Cardinality({i \in 1..Len(lst) : lst[i][1] >= x[1]})
    IN  SubSeq(lst, 1, n) \o <<x>> \o SubSeq(lst, n + 1, Len(lst))

RECURSIVE SortedDescending(_)
\* sorted(pairs, key=lambda x: x[0], reverse=True) of (key, item) pairs: a stable
\* sort, equal keys keep their order
SortedDescending(pairs) ==
    IF pairs = <<>> THEN <<>>
    ELSE InsertDescending(SortedDescending(SubSeq(pairs, 1, Len(pairs) - 1)), pairs[Len(pairs)])

\* the items of a list of (key, item) pairs
Items(pairs) == [k \in 1..Len(pairs) |-> pairs[k][2]]

\* max(tensions, key=urgency) returning the last maximal element (mutation)
MaxByUrgency_Last(tensions) ==
    tensions[CHOOSE i \in 1..Len(tensions) :
                 /\ \A j \in 1..Len(tensions) : tensions[j].urgency <= tensions[i].urgency
                 /\ \A j \in (i + 1)..Len(tensions) : tensions[j].urgency < tensions[i].urgency]

\* max(tensions, key=lambda t: t.urgency): the first element of maximal urgency
MaxByUrgency(tensions) ==
    tensions[CHOOSE i \in 1..Len(tensions) :
                 /\ \A j \in 1..Len(tensions) : tensions[j].urgency <= tensions[i].urgency
                 /\ \A j \in 1..(i - 1) : tensions[j].urgency < tensions[i].urgency]

\* [t for t in lst if t != x]
Without(lst, x) == SelectSeq(lst, LAMBDA t : t /= x)

\* stubbed = [t for t in flagged_tensions if t not in selected]
Stubbed(flagged_tensions, selected) ==
    SelectSeq(flagged_tensions, LAMBDA t : \A k \in 1..Len(selected) : selected[k] /= t)

\* _select_urgent without the sort (mutation)
SelectUrgent_Unsorted(tensions, max_branches) == Slice(tensions, max_branches)

\* _select_urgent
SelectUrgent(tensions, max_branches) ==
    Slice(Items(SortedDescending([k \in 1..Len(tensions) |-> <<tensions[k].urgency, tensions[k]>>])),
          max_branches)

\* the numbers re.findall(r'0\.\d+|1\.0|0', response) finds in the responses of the model
ScoreText == [f \in {"0.9", "0.2"} |-> IF f = "0.9" THEN 90 ELSE 20]

\* the score parsed from a response of _compute_depth_potential / _compute_meta_level
ParseScore(response) ==
    LET numbers == SelectSeq(response, LAMBDA f : f \in DOMAIN ScoreText)
    IN  IF numbers /= <<>> THEN ScoreText[numbers[1]] ELSE 50

\* the score parsed from a response of _compute_diversity: clamped to [0.0, 1.0]
ParseDiversity(response) ==
    LET numbers == SelectSeq(response, LAMBDA f : f \in DOMAIN ScoreText)
        score == IF numbers /= <<>> THEN ScoreText[numbers[1]] ELSE 50
        capped == IF score < 100 THEN score ELSE 100
    IN  IF numbers = <<>> THEN 50 ELSE IF capped > 0 THEN capped ELSE 0

\* a selector that has been handed the flagged tensions and has not been called yet
Collecting(flagged_tensions) ==
    [pc |-> "collecting", candidates |-> flagged_tensions, max_branches |-> 0,
     strategy |-> "", selected |-> <<>>, stubbed |-> <<>>, remaining |-> <<>>,
     scored |-> <<>>, i |-> 0, best_score |-> -1, best_tension |-> <<>>, llm_calls |-> 0]

\* select_branches returns (selected, stubbed); the locals of the call are gone
Returned(s, selected, stubbed) ==
    [Collecting(s.candidates) EXCEPT !.pc = "returned", !.max_branches = s.max_branches,
        !.strategy = s.strategy, !.selected = selected, !.stubbed = stubbed,
        !.llm_calls = s.llm_calls]

\* the end of select_branches once the strategy has returned selected
ReturnSelected(s, selected) == Returned(s, selected, Stubbed(s.candidates, selected))

\* the head of the while loop of _select_diverse: another round of scoring, or return
DiverseLoop(s) ==
    IF Len(s.selected) < s.max_branches /\ s.remaining /= <<>>
    THEN [s EXCEPT !.pc = "diverse", !.i = 1, !.best_score = -1, !.best_tension = <<>>]
    ELSE ReturnSelected(s, s.selected)

\* _select_diverse up to its first call of the generator
SelectDiverseStart(s) ==
    IF Len(s.candidates) <= s.max_branches
    THEN ReturnSelected(s, s.candidates)
    ELSE LET first == MaxByUrgency(s.candidates)
         IN  DiverseLoop([s EXCEPT !.selected = <<first>>,
                                   !.remaining = Without(s.candidates, first)])

\* select_branches taking the early return only when len(flagged_tensions) < max_branches
\* (mutation)
SelectBranchesCall_StrictlyFewer(flagged_tensions, max_branches, strategy) ==
    LET s == [Collecting(flagged_tensions) EXCEPT !.max_branches = max_branches,
                                                  !.strategy = strategy]
    IN  IF Len(flagged_tensions) = 0 THEN Returned(s, <<>>, <<>>)
        ELSE IF Len(flagged_tensions) < max_branches THEN Returned(s, flagged_tensions, <<>>)
        ELSE IF strategy = "urgent"
             THEN ReturnSelected(s, SelectUrgent(flagged_tensions, max_branches))
        ELSE IF strategy \in {"deep", "meta"} THEN [s EXCEPT !.pc = "scoring"]
        ELSE DiverseLoop([s EXCEPT !.selected = <<MaxByUrgency(flagged_tensions)>>,
                 !.remaining = Without(flagged_tensions, MaxByUrgency(flagged_tensions))])

\* select_branches up to its first call of the generator, or to its return
SelectBranchesCall(flagged_tensions, max_branches, strategy) ==
    LET s == [Collecting(flagged_tensions) EXCEPT !.max_branches = max_branches,
                                                  !.strategy = strategy]
    IN  IF Len(flagged_tensions) = 0 THEN Returned(s, <<>>, <<>>)
        ELSE IF Len(flagged_tensions) <= max_branches THEN Returned(s, flagged_tensions, <<>>)
        ELSE IF strategy = "urgent"
             THEN ReturnSelected(s, SelectUrgent(flagged_tensions, max_branches))
        ELSE IF strategy \in {"deep", "meta"} THEN [s EXCEPT !.pc = "scoring"]
        ELSE SelectDiverseStart(s)

\* _select_deep / _select_meta after the generator answered for one more tension
ScoredNext(s, response) ==
    LET tension == s.candidates[Len(s.scored) + 1]
        scored == Append(s.scored, <<ParseScore(response), tension>>)
        t == [s EXCEPT !.scored = scored, !.llm_calls = @ + 1]
    IN  IF Len(scored) < Len(s.candidates) THEN t
        ELSE ReturnSelected(t, Items(Slice(SortedDescending(scored), s.max_branches)))

\* _select_diverse after the generator answered for one more candidate of remaining
DiverseNext(s, response) ==
    LET candidate == s.remaining[s.i]
        diversity == ParseDiversity(response)
        better == diversity > s.best_score
        t == [s EXCEPT !.llm_calls = @ + 1, !.i = @ + 1,
                       !.best_score = IF better THEN diversity ELSE @,
                       !.best_tension = IF better THEN <<candidate>> ELSE @]
    IN  IF t.i <= Len(s.remaining) THEN t
        ELSE IF t.best_tension /= <<>>
             THEN DiverseLoop([t EXCEPT !.selected = Append(@, t.best_tension[1]),
                                        !.remaining = Without(@, t.best_tension[1])])
             ELSE DiverseLoop(t)

(* The steps of the selector *)

\* the caller puts one more flag in the list it will hand to select_branches
flag_tension(t) ==
    /\ selection.pc = "collecting"
    /\ selection' = Collecting(Append(selection.candidates, t))

select_branches(max_branches, strategy) ==
    /\ selection.pc = "collecting"
    /\ selection' = SelectBranchesCall(selection.candidates, max_branches, strategy)

\* llm_call returns response to _compute_depth_potential / _compute_meta_level
score_response(response) ==
    /\ selection.pc = "scoring"
    /\ selection' = ScoredNext(selection, response)

\* llm_call returns response to _compute_diversity
diversity_response(response) ==
    /\ selection.pc = "diverse"
    /\ selection' = DiverseNext(selection, response)

\* llm_call raises: the exception leaves select_branches, which returns nothing
selector_llm_error ==
    /\ selection.pc \in {"scoring", "diverse"}
    /\ selection' = [Collecting(selection.candidates) EXCEPT !.pc = "raised",
                        !.max_branches = selection.max_branches,
                        !.strategy = selection.strategy,
                        !.llm_calls = selection.llm_calls + 1]

----------------------------------------------------------------------------
(* branch_stub: a BranchStub, its relevance check and its status changes.
   A call of the generator is a step of its own: should_revisit is suspended in
   pc = "awaiting" until the response arrives or the call raises. *)

\* what a call on the stub gave back: kind is "none", "return" or "raise"
StubResult(kind, value, reason, error) ==
    [kind |-> kind, value |-> value, reason |-> reason, error |-> error]

\* BranchStub(...): status "stub", no revisit checks; core holds the fields given at
\* construction
BranchStub(stub_id) ==
    [pc |-> "idle", status |-> "stub", revisit_checks |-> <<>>,
     core |-> [stub_id |-> stub_id, question |-> "Why thirty?", parent_node_id |-> 1,
               flagged_at_turn |-> 3, observer_name |-> "observer", urgency |-> 70,
               created_at |-> TimeOf(1), rationale |-> "", context_excerpt |-> ""],
     last |-> "init", ret |-> StubResult("none", FALSE, <<>>, ""), llm_calls |-> 0]

\* datetime.now().isoformat() at the time of the k-th entry
Timestamp(k) == IsoFormat(TimeOf(k))

\* building node_summaries reads node.concise_summary of each of the first 10 nodes,
\* which raises AttributeError on an object without that attribute
SummariesRaise(ns) ==
    \E k \in 1..Len(Slice(ns, 10)) : "concise_summary" \notin DOMAIN ns[k]

\* the responses of the model, as json.loads reads them after the cleaning: an object
\* with some of the three keys, a JSON value that is not an object, or no JSON at all
JsonObject(keys, relevance_score, should_explore, reason) ==
    [json |-> "object", keys |-> keys, relevance_score |-> relevance_score,
     should_explore |-> should_explore, reason |-> reason]
JsonNumber == [JsonObject({}, 0, FALSE, <<>>) EXCEPT !.json = "number"]
NotJson == [JsonObject({}, 0, FALSE, <<>>) EXCEPT !.json = "invalid"]

\* data.get(key, default)
Get(data, key, default) == IF key \in data.keys THEN data[key] ELSE default

\* should_revisit without the status test (mutation)
ShouldRevisitCall_NoStatusTest(s, ns) ==
    IF SummariesRaise(ns)
    THEN [s EXCEPT !.last = "should_revisit",
                   !.ret = StubResult("raise", FALSE, <<>>, "AttributeError")]
    ELSE [s EXCEPT !.last = "should_revisit", !.pc = "awaiting",
                   !.ret = StubResult("none", FALSE, <<>>, ""), !.llm_calls = @ + 1]

\* should_revisit up to its call of the generator, or to its return
ShouldRevisitCall(s, ns) ==
    IF s.status /= "stub"
    THEN [s EXCEPT !.last = "should_revisit",
                   !.ret = StubResult("return", FALSE, <<"Already", " ", s.status>>, "")]
    ELSE IF SummariesRaise(ns)
    THEN [s EXCEPT !.last = "should_revisit",
                   !.ret = StubResult("raise", FALSE, <<>>, "AttributeError")]
    ELSE [s EXCEPT !.last = "should_revisit", !.pc = "awaiting",
                   !.ret = StubResult("none", FALSE, <<>>, ""), !.llm_calls = @ + 1]

\* the rest of should_revisit once the generator has answered
RevisitResponseBody(s, data, threshold, dag_size) ==
    IF data.json = "invalid"
    THEN [s EXCEPT !.pc = "idle",
             !.revisit_checks = Append(@, [timestamp |-> Timestamp(Len(@) + 1),
                                           error |-> "Expecting value",
                                           dag_size |-> dag_size]),
             !.ret = StubResult("return", FALSE,
                                <<"Error evaluating relevance:", " ", "Expecting value">>, "")]
    ELSE IF data.json /= "object"
    THEN [s EXCEPT !.pc = "idle", !.ret = StubResult("raise", FALSE, <<>>, "AttributeError")]
    ELSE LET relevance == Get(data, "relevance_score", 0)
             should_explore == Get(data, "should_explore", FALSE)
             reason == Get(data, "reason", <<"Relevance check complete">>)
         IN  [s EXCEPT !.pc = "idle",
                 !.revisit_checks = Append(@, [timestamp |-> Timestamp(Len(@) + 1),
                                               relevance_score |-> relevance,
                                               should_explore |-> should_explore,
                                               reason |-> reason,
                                               dag_size |-> dag_size]),
                 !.ret = StubResult("return", should_explore /\ relevance >= threshold,
                                    reason, "")]

\* should_revisit marking the stub explored when it answers True (mutation)
RevisitResponse_Promotes(s, data, threshold, dag_size) ==
    LET t == RevisitResponseBody(s, data, threshold, dag_size)
    IN  IF t.ret.kind = "return" /\ t.ret.value THEN [t EXCEPT !.status = "explored"] ELSE t

\* should_revisit from the response of the generator to its return
RevisitResponse(s, data, threshold, dag_size) ==
    RevisitResponseBody(s, data, threshold, dag_size)

\* mark_explored
MarkExplored(s, node_id) ==
    [s EXCEPT !.status = "explored", !.last = "mark_explored",
              !.ret = StubResult("return", FALSE, <<>>, ""),
              !.revisit_checks = Append(@, [timestamp |-> Timestamp(Len(@) + 1),
                                            action |-> "explored", node_id |-> node_id])]

\* mark_superseded
MarkSuperseded(s, reason) ==
    [s EXCEPT !.status = "superseded", !.last = "mark_superseded",
              !.ret = StubResult("return", FALSE, <<>>, ""),
              !.revisit_checks = Append(@, [timestamp |-> Timestamp(Len(@) + 1),
                                            action |-> "superseded", reason |-> reason])]

(* The steps of the stub *)

should_revisit ==
    /\ stub.pc = "idle"
    /\ stub' = ShouldRevisitCall(stub, nodes)

\* llm_call returns the response, read as data, to should_revisit(current_dag, threshold)
revisit_response(data, threshold) ==
    /\ stub.pc = "awaiting"
    /\ stub' = RevisitResponse(stub, data, threshold, Len(nodes))

\* llm_call raises: the exception leaves should_revisit
revisit_llm_error ==
    /\ stub.pc = "awaiting"
    /\ stub' = [stub EXCEPT !.pc = "idle",
                            !.ret = StubResult("raise", FALSE, <<>>, "ConnectionError")]

mark_explored(node_id) ==
    /\ stub.pc = "idle"
    /\ stub' = MarkExplored(stub, node_id)

mark_superseded(reason) ==
    /\ stub.pc = "idle"
    /\ stub' = MarkSuperseded(stub, reason)

----------------------------------------------------------------------------
(* phase3_edges: EdgeDetector.detect_branches_from *)

\* if node.branch_question: neither None nor the empty str
HasBranchQuestion(node) == node.branch_question \notin {None, ""}

\* f"Branch debate on: {node.branch_question[:100]}..."
BranchDebateDescription(branch_question) ==
    IF branch_question = "What does thirty signify?"
    THEN "Branch debate on: What does thirty signify?..."
    ELSE "Branch debate on: ..."

\* the edge detect_branches_from builds for a branch node
DetectedBranchEdge(main_node, node) ==
    EdgeWith(main_node.node_id, node.node_id, "BRANCHES_FROM",
             BranchDebateDescription(node.branch_question), 100)

RECURSIVE BranchesFromWalk(_, _, _)
\* the loop of detect_branches_from attaching every branch node to the first main
\* node instead of the last one seen (mutation)
BranchesFromWalk_FirstRoot(all_nodes, main_node, found) ==
    IF all_nodes = <<>> THEN found
    ELSE LET node == Head(all_nodes)
         IN  IF HasBranchQuestion(node)
             THEN BranchesFromWalk(Tail(all_nodes), main_node,
                      IF main_node /= <<>> THEN Append(found, DetectedBranchEdge(main_node[1], node))
                      ELSE found)
             ELSE BranchesFromWalk(Tail(all_nodes),
                                   IF main_node /= <<>> THEN main_node ELSE <<node>>, found)

\* the loop of detect_branches_from: main_node is <<>> for None, found the edges so far
BranchesFromWalk(all_nodes, main_node, found) ==
    IF all_nodes = <<>> THEN found
    ELSE LET node == Head(all_nodes)
         IN  IF HasBranchQuestion(node)
             THEN BranchesFromWalk(Tail(all_nodes), main_node,
                      IF main_node /= <<>> THEN Append(found, DetectedBranchEdge(main_node[1], node))
                      ELSE found)
             ELSE BranchesFromWalk(Tail(all_nodes), <<node>>, found)

\* EdgeDetector.detect_branches_from over dag.get_all_nodes()
DetectBranchesFrom(ns) == BranchesFromWalk(SortedByCreated(ns), <<>>, <<>>)

\* detect_branches_from returns the edges; the graph is not touched
detect_branches_from ==
    /\ ret' = DetectBranchesFrom(nodes)
    /\ last' = "detect_branches_from"
    /\ UNCHANGED <<nodes, edges, metadata, order, file>>

----------------------------------------------------------------------------
(* phase3_edges.py: detect_contradictions, detect_elaborations, detect_all_edges.
   What the checks measure on a pair is given per call, keyed by the ids of the
   two arguments in the order of the call *)

\* the pairs detect_contradictions compares: for i, node1 in enumerate(all_nodes):
\* for node2 in all_nodes[i+1:]
ContradictionPairs(all_nodes) ==
    {<<all_nodes[p[1]].node_id, all_nodes[p[2]].node_id>> :
        p \in {q \in (1..Len(all_nodes)) \X (1..Len(all_nodes)) : q[1] < q[2]}}

\* the pairs detect_elaborations compares: all_nodes[i], all_nodes[i + 1]
ElaborationPairs(all_nodes) ==
    {<<all_nodes[i].node_id, all_nodes[i + 1].node_id>> : i \in 1..(Len(all_nodes) - 1)}

RECURSIVE ContradictionsFrom(_, _, _, _)
\* the two loops of detect_contradictions from the pair (i, j) on
ContradictionsFrom(all_nodes, i, j, contra) ==
    IF i > Len(all_nodes) THEN <<>>
    ELSE IF j > Len(all_nodes) THEN ContradictionsFrom(all_nodes, i + 1, i + 2, contra)
    ELSE CheckContradiction(all_nodes[i], all_nodes[j],
                            contra[<<all_nodes[i].node_id, all_nodes[j].node_id>>])
         \o ContradictionsFrom(all_nodes, i, j + 1, contra)

\* EdgeDetector.detect_contradictions
DetectContradictions(ns, contra) == ContradictionsFrom(SortedByCreated(ns), 1, 2, contra)

RECURSIVE ElaborationsFrom(_, _, _)
\* the loop of detect_elaborations from index i on
ElaborationsFrom(all_nodes, i, elab) ==
    IF i >= Len(all_nodes) THEN <<>>
    ELSE CheckElaboration(all_nodes[i], all_nodes[i + 1],
                          elab[<<all_nodes[i].node_id, all_nodes[i + 1].node_id>>])
         \o ElaborationsFrom(all_nodes, i + 1, elab)

\* EdgeDetector.detect_elaborations
DetectElaborations(ns, elab) == ElaborationsFrom(SortedByCreated(ns), 1, elab)

\* the pairs _detect_edges_for_node hands to _check_contradiction: (new_node, existing)
NewNodeContradictionPairs(ns, new_node) ==
    {<<new_node.node_id, id>> : id \in NodeIdsOf(ns) \ {new_node.node_id}}

\* the pairs _detect_edges_for_node hands to _check_elaboration: (existing, new_node)
NewNodeElaborationPairs(ns, new_node) ==
    {<<id, new_node.node_id>> : id \in NodeIdsOf(ns) \ {new_node.node_id}}

\* EdgeDetector.detect_all_edges(new_node): new_node is <<>> for None, which checks
\* all pairs, or <<node>>
DetectAllEdges(ns, new_node, contra, elab) ==
    DetectBranchesFrom(ns)
    \o (IF new_node /= <<>>
        THEN DetectEdgesForNode(ns, new_node[1],
                 [id \in NodeIdsOf(ns) \ {new_node[1].node_id} |->
                     contra[<<new_node[1].node_id, id>>]],
                 [id \in NodeIdsOf(ns) \ {new_node[1].node_id} |->
                     elab[<<id, new_node[1].node_id>>]])
        ELSE DetectContradictions(ns, contra) \o DetectElaborations(ns, elab))

\* detector._check_contradiction(node1, node2): the call and the edge it returned
check_contradiction(node1, node2, signal) ==
    /\ ret' = [node1 |-> node1, node2 |-> node2, signal |-> signal,
               edge |-> CheckContradiction(node1, node2, signal)]
    /\ last' = "_check_contradiction"
    /\ UNCHANGED <<nodes, edges, metadata, order, file>>

\* detector.detect_all_edges(): all pairs
detect_all_edges(contra, elab) ==
    /\ ret' = DetectAllEdges(nodes, <<>>, contra, elab)
    /\ last' = "detect_all_edges"
    /\ UNCHANGED <<nodes, edges, metadata, order, file>>

\* detector.detect_all_edges(new_node): the pairs of one node of the graph
detect_all_edges_for(new_node, contra, elab) ==
    /\ ret' = DetectAllEdges(nodes, <<new_node>>, contra, elab)
    /\ last' = "detect_all_edges(new_node)"
    /\ UNCHANGED <<nodes, edges, metadata, order, file>>

----------------------------------------------------------------------------
(* What _check_contradiction measures, computed from the texts of the nodes. A text
   is known by its words; scores are in thousandths *)

TopicText == "free will illusion"
DenialText == "however although but determinism governs every physical event without exception"

\* SimpleSimilarity._extract_words: the words of more than two letters of a text
ExtractWords(text) ==
    CASE text = TopicText -> {"free", "will", "illusion"}
      [] text = DenialText ->
             {"however", "although", "but", "determinism", "governs", "every", "physical",
              "event", "without", "exception"}
      [] text = "thirty years" -> {"thirty", "years"}
      [] text = "resolved" -> {"resolved"}
      [] OTHER -> {}

\* SimpleSimilarity.compute_similarity(node, text): the Jaccard similarity of the words
\* of the node's topic and resolution with the words of the text
ComputeSimilarity(node, text) ==
    LET node_words == ExtractWords(node.topic) \cup ExtractWords(node.resolution)
        text_words == ExtractWords(text)
    IN  IF node_words = {} \/ text_words = {} THEN 0
        ELSE (Cardinality(node_words \cap text_words) * 1000)
                 \div Cardinality(node_words \cup text_words)

\* the words of these texts that one of self.contradiction_patterns matches
ContradictionWords == {"however", "although", "but"}

\* _count_patterns(f"{node1.resolution} {node2.resolution}", contradiction_patterns):
\* min(matches / 3, 1.0)
CountContradictionPatterns(node1, node2) ==
    LET matches == Cardinality((ExtractWords(node1.resolution)
                                  \cup ExtractWords(node2.resolution)) \cap ContradictionWords)
    IN  IF matches >= 3 THEN 1000 ELSE (matches * 1000) \div 3

\* the three measurements of _check_contradiction(node1, node2) on nodes without key
\* claims (_check_contradictory_claims returns 0.0 for an empty list of claims); the
\* similarity is taken between node1 and the topic of node2
MeasureContradiction(node1, node2) ==
    ContradictionSignal(CountContradictionPatterns(node1, node2), 0,
                        ComputeSimilarity(node1, node2.topic))

\* a caller infers the CONTRADICTS edges of the chronologically latest node with
\* _detect_edges_for_node and all CONTRADICTS edges with detect_contradictions
infer_both_ways ==
    /\ nodes /= <<>>
    /\ LET all_nodes == SortedByCreated(nodes)
           latest == all_nodes[Len(all_nodes)]
           contra == [id \in NodeIdsOf(nodes) |->
                         MeasureContradiction(latest, NodeById(nodes, id))]
           elab == [id \in NodeIdsOf(nodes) |-> ElaborationSignal(0, 0, 0)]
           pairs == [p \in ContradictionPairs(all_nodes) |->
                        MeasureContradiction(NodeById(nodes, p[1]), NodeById(nodes, p[2]))]
       IN ret' = [node_id |-> latest.node_id,
                  incremental |-> SelectSeq(DetectEdgesForNode(nodes, latest, contra, elab),
                                            LAMBDA e : e.edge_type = "CONTRADICTS"),
                  full |-> DetectContradictions(nodes, pairs)]
    /\ last' = "infer_both_ways"
    /\ UNCHANGED <<nodes, edges, metadata, order, file>>

----------------------------------------------------------------------------
(* debate_monitor.py: TensionFlag as the monitor builds it, DebateMonitor.
   An observer is what its two methods do on a turn: nothing, a tension with an
   urgency, or an exception. datetime.now() is a reading of a clock that may or may
   not have advanced since the reading before *)

\* TensionFlag(turn_number=..., question=..., observer_name=..., urgency=...): flag_id
\* is f"flag_{datetime.now().timestamp()}", kept as the reading; the question, the
\* excerpt, the rationale and flagged_at are left out
FlaggedTension(turn_number, observer_name, urgency, now) ==
    [turn_number |-> turn_number, observer_name |-> observer_name, urgency |-> urgency,
     flag_id |-> now]

\* BranchStub.from_tension_flag: stub_id=f"stub_{tension_flag.flag_id}"
StubIdOf(tension_flag) == <<"stub_", tension_flag.flag_id>>

\* DebateMonitor(observers): no flags yet; now is the latest reading of the clock
DebateMonitor ==
    [flagged_tensions |-> <<>>, now |-> 0, last |-> "init", ret |-> <<>>, raised |-> FALSE]

\* what check_for_tension and rate_urgency do for one observer on one turn
NoTension == [kind |-> "none"]
Tension(urgency) == [kind |-> "tension", urgency |-> urgency]
Raises == [kind |-> "raise"]

RECURSIVE ProcessTurnLoop_Replacing(_, _, _, _, _, _)
\* the loop of process_turn with self.flagged_tensions = [flag] in place of the
\* append (mutation)
ProcessTurnLoop_Replacing(m, observers, i, turn_number, outcome, tick) ==
    IF i > Len(observers) THEN m
    ELSE IF outcome[i].kind = "raise" THEN [m EXCEPT !.raised = TRUE]
    ELSE IF outcome[i].kind = "none"
    THEN ProcessTurnLoop_Replacing(m, observers, i + 1, turn_number, outcome, tick)
    ELSE LET now == m.now + tick[i]
             flag == FlaggedTension(turn_number, observers[i], outcome[i].urgency, now)
         IN  ProcessTurnLoop_Replacing(
                 [m EXCEPT !.flagged_tensions = <<flag>>,
                           !.ret = Append(@, flag), !.now = now],
                 observers, i + 1, turn_number, outcome, tick)

RECURSIVE ProcessTurnLoop(_, _, _, _, _, _)
\* for observer in self.observers, from the i-th observer on; m.ret is new_flags,
\* which the caller gets unless an observer's method raised
ProcessTurnLoop(m, observers, i, turn_number, outcome, tick) ==
    IF i > Len(observers) THEN m
    ELSE IF outcome[i].kind = "raise" THEN [m EXCEPT !.raised = TRUE]
    ELSE IF outcome[i].kind = "none"
    THEN ProcessTurnLoop(m, observers, i + 1, turn_number, outcome, tick)
    ELSE LET now == m.now + tick[i]
             flag == FlaggedTension(turn_number, observers[i], outcome[i].urgency, now)
         IN  ProcessTurnLoop(
                 [m EXCEPT !.flagged_tensions = Append(@, flag),
                           !.ret = Append(@, flag), !.now = now],
                 observers, i + 1, turn_number, outcome, tick)

\* DebateMonitor.process_turn: turn_number = len(full_transcript)
ProcessTurn(m, observers, turn_number, outcome, tick) ==
    ProcessTurnLoop([m EXCEPT !.ret = <<>>, !.last = "process_turn", !.raised = FALSE],
                    observers, 1, turn_number, outcome, tick)

\* [f for f in lst if ...]: the flags of lst that are in the set keep
Filtered(lst, keep) ==
    LET Kept(f) == f \in keep IN SelectSeq(lst, Kept)

\* DebateMonitor.get_flags_by_urgency
GetFlagsByUrgency(m, min_urgency) ==
    LET filtered == Filtered(m.flagged_tensions,
                             {f \in Range(m.flagged_tensions) : f.urgency >= min_urgency})
    IN  Items(SortedDescending([i \in 1..Len(filtered) |-> <<filtered[i].urgency, filtered[i]>>]))

\* DebateMonitor.get_flags_by_observer
GetFlagsByObserver(m, observer_name) ==
    Filtered(m.flagged_tensions,
             {f \in Range(m.flagged_tensions) : f.observer_name = observer_name})

\* DebateMonitor.get_flags_at_turn
GetFlagsAtTurn(m, turn_number) ==
    Filtered(m.flagged_tensions,
             {f \in Range(m.flagged_tensions) : f.turn_number = turn_number})

\* monitor.process_turn(turn, full_transcript)
process_turn(observers, turn_number, outcome, tick) ==
    monitor' = ProcessTurn(monitor, observers, turn_number, outcome, tick)

\* monitor.get_flags_by_urgency(min_urgency)
get_flags_by_urgency(min_urgency) ==
    monitor' = [monitor EXCEPT !.last = "get_flags_by_urgency", !.raised = FALSE,
                               !.ret = GetFlagsByUrgency(monitor, min_urgency)]

\* monitor.get_flags_by_observer(observer_name)
get_flags_by_observer(observer_name) ==
    monitor' = [monitor EXCEPT !.last = "get_flags_by_observer", !.raised = FALSE,
                               !.ret = GetFlagsByObserver(monitor, observer_name)]

\* monitor.get_flags_at_turn(turn_number)
get_flags_at_turn(turn_number) ==
    monitor' = [monitor EXCEPT !.last = "get_flags_at_turn", !.raised = FALSE,
                               !.ret = GetFlagsAtTurn(monitor, turn_number)]

----------------------------------------------------------------------------
(* Initial state: a fresh DebateDAG(), no graph file, an idle detector and session *)

InitGraph ==
    /\ nodes = <<>>
    /\ edges = <<>>
    /\ metadata = NewMetadata
    /\ last = "init"
    /\ ret = "return"
    /\ order = <<>>
    /\ file = NoFile

InitDetectorIdle ==
    /\ transcript = <<>>
    /\ question = NoQuestion
    /\ max_turns = 10
    /\ verdict = Unchecked

InitSessionIdle == sess = [pc |-> "idle"]

\* no stub created
NoStub == [created |-> FALSE]

InitSideIdle ==
    /\ selection = Collecting(<<>>)
    /\ stub = NoStub
    /\ monitor = DebateMonitor

Init == InitGraph /\ InitDetectorIdle /\ InitSessionIdle /\ InitSideIdle

----------------------------------------------------------------------------
(* Spec: insertions into a DebateDAG (add_node, add_edge with any arguments) *)

\* the nodes add_node is called with: a new or a known id, either payload
NodeInputs(ns) == {ArgumentNode(id, v, 1) : id \in NodeIdInputs(ns), v \in 1..2}

\* the edge kinds the insertions draw from
LinKinds == {"BRANCHES_FROM", "CONTRADICTS"}

\* the edges add_edge is called with: known and unknown endpoints, either payload
EdgeInputs(ns) ==
    {Edge(from, to, kind, v) :
        from \in NodeIdInputs(ns), to \in NodeIdInputs(ns), kind \in LinKinds, v \in 1..2}

AddNode ==
    \E n \in NodeInputs(nodes) :
        /\ Len(nodes) + Len(edges) < MaxGraphSize
        /\ add_node(n)
        /\ UNCHANGED <<detVars, sess, sideVars>>

AddEdge ==
    \E e \in EdgeInputs(nodes) :
        /\ Len(nodes) + Len(edges) < MaxGraphSize
        /\ add_edge(e)
        /\ UNCHANGED <<detVars, sess, sideVars>>

Next == AddNode \/ AddEdge

Spec == Init /\ [][Next]_vars

----------------------------------------------------------------------------
(* SpecLinear: graphs of up to three nodes built by insertions, then linearized *)

LinAddNode ==
    \E t \in Times :
        /\ Len(nodes) < 3
        /\ Len(nodes) + Len(edges) < MaxLinSize
        /\ add_node(ArgumentNode(Len(nodes) + 1, 1, t))
        /\ UNCHANGED <<detVars, sess, sideVars>>

LinAddEdge ==
    \E from \in NodeIdsOf(nodes), to \in NodeIdsOf(nodes), kind \in LinKinds :
        /\ Len(nodes) + Len(edges) < MaxLinSize
        /\ add_edge(Edge(from, to, kind, 1))
        /\ UNCHANGED <<detVars, sess, sideVars>>

LinLinearize == linearize /\ UNCHANGED <<detVars, sess, sideVars>>

NextLinear == LinAddNode \/ LinAddEdge \/ LinLinearize

SpecLinear == Init /\ [][NextLinear]_vars

----------------------------------------------------------------------------
(* SpecPersist: a graph built by insertions, saved to its file and loaded back *)

\* the nodes that are saved: a main-debate node created on a fraction of a second,
\* a branch-debate node created on a whole second
SavedNodeInputs(ns) == {ArgumentNode(Len(ns) + 1, v, v) : v \in 1..2}

\* the edges that are saved: every kind, either payload
SavedEdgeInputs(ns) ==
    {Edge(from, to, k[1], k[2]) :
        from \in NodeIdsOf(ns), to \in NodeIdsOf(ns),
        k \in {<<"BRANCHES_FROM", 1>>, <<"CONTRADICTS", 2>>, <<"ELABORATES", 2>>}}

PerAddNode ==
    \E n \in SavedNodeInputs(nodes) :
        /\ Len(nodes) + Len(edges) < MaxSavedSize
        /\ add_node(n)
        /\ UNCHANGED <<detVars, sess, sideVars>>

PerAddEdge ==
    \E e \in SavedEdgeInputs(nodes) :
        /\ Len(nodes) + Len(edges) < MaxSavedSize
        /\ add_edge(e)
        /\ UNCHANGED <<detVars, sess, sideVars>>

PerSave == save /\ UNCHANGED <<detVars, sess, sideVars>>

PerLoad == load /\ UNCHANGED <<detVars, sess, sideVars>>

NextPersist == PerAddNode \/ PerAddEdge \/ PerSave \/ PerLoad

SpecPersist == Init /\ [][NextPersist]_vars

----------------------------------------------------------------------------
(* SpecDetector: a detector is consulted by a caller that grows a transcript out *)
(* of a few responses                                                            *)

MaxTranscript == 6  \* turns of a transcript

\* the responses the turns are made of
Plain == <<"Alpha", " ", "beta", " ", "gamma", " ", "delta", " ", "epsilon", " ", "zeta">>
TheAnswer == <<"the", " ", "answer">>
WeAgree == <<"We", " ", "agree">>
Unresolved == <<"un", "resolved">>
Responses == {Plain, TheAnswer, WeAgree, Unresolved}

\* the branch_question arguments: None, "" and a question
Questions == {NoQuestion, Some(<<>>), Some(<<"why", "?">>)}

\* the max_turns the detector is constructed with
MaxTurnsInputs == {2, 10}

InitDetector ==
    /\ InitGraph
    /\ InitSessionIdle
    /\ InitSideIdle
    /\ transcript = <<>>
    /\ question = NoQuestion
    /\ verdict = Unchecked
    /\ max_turns \in MaxTurnsInputs

DetAppend ==
    /\ Len(transcript) < MaxTranscript
    /\ \E content \in Responses : append_turn(content)
    /\ UNCHANGED <<graphVars, sess, sideVars>>

DetCheck ==
    /\ \E q \in Questions : check_completion(q)
    /\ UNCHANGED <<graphVars, sess, sideVars>>

NextDetector == DetAppend \/ DetCheck

SpecDetector == InitDetector /\ [][NextDetector]_vars

----------------------------------------------------------------------------
(* SpecSession: a new DebateSession processes passages and branch questions *)

MaxSessionSize == 6  \* nodes, edges and stored turns of the session's graph
MaxAgents == 3       \* agents of a debate
MaxRounds == 2       \* max_rounds of a debate

\* what the generator answers in a debate
Noted == <<"noted">>
SessionResponses == {Noted, WeAgree}

RECURSIVE TurnsStored(_)
\* the number of turns stored in the nodes
TurnsStored(ns) ==
    IF ns = <<>> THEN 0 ELSE Len(Head(ns).turns_data) + TurnsStored(Tail(ns))

\* the size of the session's graph
SessionSize == Len(nodes) + Len(edges) + TurnsStored(nodes)

InitSession ==
    /\ nodes = <<>>
    /\ edges = <<>>
    /\ metadata = [created_at |-> NewMetadata.created_at, version |-> NewMetadata.version,
                   session_name |-> "session"]
    /\ file = NoFile
    /\ order = <<>>
    /\ last = "init"
    /\ ret = "return"
    /\ transcript = <<>>
    /\ question = NoQuestion
    /\ max_turns = 10
    /\ verdict = Unchecked
    /\ sess = IdleSession
    /\ InitSideIdle

SessPassage ==
    \E agents \in 1..MaxAgents, rounds \in 1..MaxRounds :
        /\ SessionSize + 1 + agents * rounds <= MaxSessionSize
        /\ process_passage("When Zarathustra", agents, rounds)
        /\ UNCHANGED sideVars

SessBranch ==
    \E parent \in NodeIdInputs(nodes), agents \in 1..MaxAgents, rounds \in 1..MaxRounds :
        /\ SessionSize + 2 + agents * rounds <= MaxSessionSize
        /\ process_branch("Why thirty?", parent, agents, rounds)
        /\ UNCHANGED sideVars

SessTurn ==
    /\ \E response \in SessionResponses : debate_turn(response)
    /\ UNCHANGED sideVars

SessLlmError == llm_error /\ UNCHANGED sideVars

\* what the two checks measure on a pair: nothing; a score on the threshold, above it
\* only when the node types oppose; the highest score
ContradictionSignals ==
    {ContradictionSignal(0, 0, 0), ContradictionSignal(1000, 250, 1000),
     ContradictionSignal(1000, 1000, 1000)}

ElaborationSignals ==
    {ElaborationSignal(0, 0, 0), ElaborationSignal(1000, 500, 0),
     ElaborationSignal(1000, 1000, 1000)}

\* what the generator answers for the topic and the resolution: a text for both, a
\* blank topic, an empty resolution
Syntheses ==
    {Synthesis("topic", "resolution"), Synthesis(" ", "resolution"), Synthesis("topic", "")}

SessCreate ==
    /\ \E synthesis \in Syntheses,
          contra \in [NodeIdsOf(nodes) -> ContradictionSignals],
          elab \in [NodeIdsOf(nodes) -> ElaborationSignals] :
           create_node(synthesis, contra, elab)
    /\ Len(nodes') + Len(edges') + TurnsStored(nodes') <= MaxSessionSize
    /\ UNCHANGED sideVars

NextSession == SessPassage \/ SessBranch \/ SessTurn \/ SessLlmError \/ SessCreate

SpecSession == InitSession /\ [][NextSession]_vars

----------------------------------------------------------------------------
(* SpecSelector: a list of flagged tensions is collected and handed to select_branches *)

MaxCandidates == 3  \* flagged tensions handed to select_branches

\* the flags of the model: two ids and two urgencies, so that distinct flags tie on
\* urgency and a list can hold the same flag twice
FlagInputs == {TensionFlag(id, u) : id \in {"flag_a", "flag_b"}, u \in {60, 80}}

\* the strategy names; "newest" is none of the names select_branches knows
Strategies == {"urgent", "diverse", "deep", "meta", "newest"}

\* what the generator answers when asked for a score
ScoreResponses == {<<"0.9">>, <<"0.2">>, <<"unsure">>}

SelFlag ==
    /\ Len(selection.candidates) < MaxCandidates
    /\ \E t \in FlagInputs : flag_tension(t)
    /\ UNCHANGED <<graphVars, detVars, sess, last, ret, stub, monitor>>

SelSelect ==
    /\ \E max_branches \in 0..MaxCandidates, strategy \in Strategies :
           select_branches(max_branches, strategy)
    /\ UNCHANGED <<graphVars, detVars, sess, last, ret, stub, monitor>>

SelScore ==
    /\ \E response \in ScoreResponses : score_response(response)
    /\ UNCHANGED <<graphVars, detVars, sess, last, ret, stub, monitor>>

SelDiversity ==
    /\ \E response \in ScoreResponses : diversity_response(response)
    /\ UNCHANGED <<graphVars, detVars, sess, last, ret, stub, monitor>>

SelLlmError == selector_llm_error /\ UNCHANGED <<graphVars, detVars, sess, last, ret, stub, monitor>>

NextSelector == SelFlag \/ SelSelect \/ SelScore \/ SelDiversity \/ SelLlmError

SpecSelector == Init /\ [][NextSelector]_vars

----------------------------------------------------------------------------
(* SpecStub: a stub is checked for relevance against a growing graph, and marked *)

MaxHistory == 3    \* entries of the stub's revisit_checks, and calls of the generator
MaxStubNodes == 1  \* nodes of the graph the stub is checked against

\* what the generator answers to the relevance prompt
RevisitResponses ==
    {JsonObject({"relevance_score", "should_explore", "reason"}, 90, TRUE, <<"now central">>),
     JsonObject({"relevance_score", "should_explore", "reason"}, 30, TRUE, <<"tangential">>),
     JsonObject({}, 0, FALSE, <<>>),
     JsonNumber,
     NotJson}

\* the threshold should_revisit is called with: its default
Thresholds == {60}

InitStub ==
    /\ InitGraph
    /\ InitDetectorIdle
    /\ InitSessionIdle
    /\ selection = Collecting(<<>>)
    /\ stub = BranchStub("stub_flag_a")
    /\ monitor = DebateMonitor

\* room for the entry the call may append
RoomInHistory == Len(stub.revisit_checks) < MaxHistory

\* room for one more call of the generator
RoomForCall == stub.llm_calls < MaxHistory

StubAddNode ==
    /\ stub.pc = "idle"
    /\ Len(nodes) < MaxStubNodes
    /\ \E n \in NodeInputs(nodes) : add_node(n)
    /\ UNCHANGED <<detVars, sess, sideVars>>

StubRevisit ==
    /\ IF stub.status = "stub" THEN RoomInHistory /\ RoomForCall ELSE TRUE
    /\ should_revisit
    /\ UNCHANGED <<graphVars, last, ret, detVars, sess, selection, monitor>>

StubResponse ==
    /\ \E data \in RevisitResponses, threshold \in Thresholds : revisit_response(data, threshold)
    /\ UNCHANGED <<graphVars, last, ret, detVars, sess, selection, monitor>>

StubLlmError == revisit_llm_error /\ UNCHANGED <<graphVars, last, ret, detVars, sess, selection, monitor>>

StubMarkExplored ==
    /\ RoomInHistory
    /\ \E node_id \in {1} : mark_explored(node_id)
    /\ UNCHANGED <<graphVars, last, ret, detVars, sess, selection, monitor>>

StubMarkSuperseded ==
    /\ RoomInHistory
    /\ \E reason \in {<<"addressed by another node">>} : mark_superseded(reason)
    /\ UNCHANGED <<graphVars, last, ret, detVars, sess, selection, monitor>>

NextStub ==
    StubAddNode \/ StubRevisit \/ StubResponse \/ StubLlmError \/ StubMarkExplored
        \/ StubMarkSuperseded

SpecStub == InitStub /\ [][NextStub]_vars

----------------------------------------------------------------------------
(* SpecInference: main and branch nodes are inserted with any creation times, and
   the BRANCHES_FROM edges are inferred *)

MaxInferNodes == 3  \* nodes of the graph the edges are inferred from

InfAddNode ==
    \E v \in 1..2, t \in Times :
        /\ Len(nodes) < MaxInferNodes
        /\ add_node(ArgumentNode(Len(nodes) + 1, v, t))
        /\ UNCHANGED <<detVars, sess, sideVars>>

InfBranchesFrom == detect_branches_from /\ UNCHANGED <<detVars, sess, sideVars>>

NextInference == InfAddNode \/ InfBranchesFrom

SpecInference == Init /\ [][NextInference]_vars

----------------------------------------------------------------------------
(* SpecEdges: synthesis and impasse nodes are inserted with creation times that may
   coincide, and CONTRADICTS and ELABORATES edges are inferred over all pairs, for
   one node, and by single checks *)

MaxEdgeNodes == 2  \* nodes of the graph the edges are inferred from

\* the creation times of these nodes: two nodes may share one
EdgeTimes == {1, 2}

\* scores below, on and just above the threshold 0.5, without and with the type score
BoundarySignals ==
    {ContradictionSignal(1000, 250, 0), ContradictionSignal(1000, 275, 0),
     ContradictionSignal(0, 750, 1000), ContradictionSignal(0, 775, 1000),
     ContradictionSignal(0, 0, 0), ContradictionSignal(1000, 1000, 1000)}

\* what a check over many pairs measures on each: nothing, or the highest score
WeakOrStrongContradiction ==
    {ContradictionSignal(0, 0, 0), ContradictionSignal(1000, 1000, 1000)}

WeakOrStrongElaboration ==
    {ElaborationSignal(0, 0, 0), ElaborationSignal(1000, 1000, 1000)}

EdgesAddNode ==
    \E v \in 2..3, t \in EdgeTimes :
        /\ Len(nodes) < MaxEdgeNodes
        /\ add_node(ArgumentNode(Len(nodes) + 1, v, t))
        /\ UNCHANGED <<detVars, sess, sideVars>>

EdgesCheckContradiction ==
    \E i, j \in 1..Len(nodes), signal \in BoundarySignals :
        /\ i /= j
        /\ check_contradiction(nodes[i], nodes[j], signal)
        /\ UNCHANGED <<detVars, sess, sideVars>>

EdgesDetectAll ==
    \E contra \in [ContradictionPairs(SortedByCreated(nodes)) -> WeakOrStrongContradiction],
       elab \in [ElaborationPairs(SortedByCreated(nodes)) -> WeakOrStrongElaboration] :
        /\ detect_all_edges(contra, elab)
        /\ UNCHANGED <<detVars, sess, sideVars>>

EdgesDetectFor ==
    \E i \in 1..Len(nodes) :
        \E contra \in [NewNodeContradictionPairs(nodes, nodes[i]) -> WeakOrStrongContradiction],
           elab \in [NewNodeElaborationPairs(nodes, nodes[i]) -> WeakOrStrongElaboration] :
            /\ detect_all_edges_for(nodes[i], contra, elab)
            /\ UNCHANGED <<detVars, sess, sideVars>>

NextEdges == EdgesAddNode \/ EdgesCheckContradiction \/ EdgesDetectAll \/ EdgesDetectFor

SpecEdges == Init /\ [][NextEdges]_vars

----------------------------------------------------------------------------
(* SpecMonitor: a monitor with two observers processes turns and is queried *)

MaxFlags == 2  \* flags the monitor accumulates

Observers == <<"dialectical", "pragmatic">>

\* len(full_transcript) of the calls
TurnNumbers == {1, 2}

Outcomes == {NoTension, Tension(60), Tension(80), Raises}

MonProcessTurn ==
    \E turn_number \in TurnNumbers, outcome \in [1..Len(Observers) -> Outcomes],
       tick \in [1..Len(Observers) -> {0, 1}] :
        /\ process_turn(Observers, turn_number, outcome, tick)
        /\ Len(monitor'.flagged_tensions) <= MaxFlags
        /\ UNCHANGED <<graphVars, last, ret, detVars, sess, selection, stub>>

MonByUrgency ==
    \E min_urgency \in {0, 70} :
        /\ get_flags_by_urgency(min_urgency)
        /\ UNCHANGED <<graphVars, last, ret, detVars, sess, selection, stub>>

MonByObserver ==
    \E i \in 1..Len(Observers) :
        /\ get_flags_by_observer(Observers[i])
        /\ UNCHANGED <<graphVars, last, ret, detVars, sess, selection, stub>>

MonAtTurn ==
    \E turn_number \in TurnNumbers :
        /\ get_flags_at_turn(turn_number)
        /\ UNCHANGED <<graphVars, last, ret, detVars, sess, selection, stub>>

NextMonitor == MonProcessTurn \/ MonByUrgency \/ MonByObserver \/ MonAtTurn

SpecMonitor == Init /\ [][NextMonitor]_vars

----------------------------------------------------------------------------
(* SpecScenario: the run of test_e2e.py on a new session: one passage debated by
   three agents for three rounds, then one branch question on the node it made,
   debated by the same agents for at most two rounds *)

ScenarioAgents == 3        \* the agents list of test_e2e.py
ScenarioRounds == 3        \* max_rounds of its process_passage call
ScenarioBranchRounds == 2  \* max_rounds of its process_branch call

\* what the generator answers in the passage debate, no marker phrase in either: the
\* opening analyses differ, the later answers are short
ScenarioResponses(round_num) == IF round_num = 1 THEN {Noted, Plain} ELSE {Noted}

ScenPassage ==
    /\ nodes = <<>>
    /\ process_passage("When Zarathustra", ScenarioAgents, ScenarioRounds)
    /\ UNCHANGED sideVars

ScenBranch ==
    /\ Len(nodes) = 1
    /\ process_branch("Why thirty?", nodes[1].node_id, ScenarioAgents, ScenarioBranchRounds)
    /\ UNCHANGED sideVars

ScenTurn ==
    /\ \E response \in IF sess.call = "process_branch" THEN SessionResponses
                        ELSE ScenarioResponses(sess.round_num) :
           debate_turn(response)
    /\ UNCHANGED sideVars

ScenLlmError == llm_error /\ UNCHANGED sideVars

ScenCreate ==
    /\ \E contra \in [NodeIdsOf(nodes) -> ContradictionSignals],
          elab \in [NodeIdsOf(nodes) -> ElaborationSignals] :
           create_node(Synthesis("topic", "resolution"), contra, elab)
    /\ UNCHANGED sideVars

NextScenario == ScenPassage \/ ScenBranch \/ ScenTurn \/ ScenLlmError \/ ScenCreate

SpecScenario == InitSession /\ [][NextScenario]_vars

----------------------------------------------------------------------------
(* SpecBranching: one-agent, one-round debates grow a graph of passages and of
   branches from any of its nodes; the process may be killed while a call saves *)

MaxBranchingNodes == 3  \* nodes of the session's graph

\* what the checks measure on a pair: no contradiction or the highest score, and no
\* elaboration
PlainContradictionSignals == {ContradictionSignal(0, 0, 0), ContradictionSignal(1000, 1000, 1000)}
PlainElaborationSignals == {ElaborationSignal(0, 0, 0)}

BrPassage ==
    /\ Len(nodes) < MaxBranchingNodes
    /\ process_passage("When Zarathustra", 1, 1)
    /\ UNCHANGED sideVars

BrBranch ==
    \E parent \in NodeIdInputs(nodes) :
        /\ Len(nodes) < MaxBranchingNodes
        /\ process_branch("Why thirty?", parent, 1, 1)
        /\ UNCHANGED sideVars

BrTurn == debate_turn(Noted) /\ UNCHANGED sideVars

BrLlmError == llm_error /\ UNCHANGED sideVars

BrCreate ==
    /\ \E contra \in [NodeIdsOf(nodes) -> PlainContradictionSignals],
          elab \in [NodeIdsOf(nodes) -> PlainElaborationSignals] :
           create_node(Synthesis("topic", "resolution"), contra, elab)
    /\ UNCHANGED sideVars

BrKilled ==
    /\ \E contra \in [NodeIdsOf(nodes) -> PlainContradictionSignals],
          elab \in [NodeIdsOf(nodes) -> PlainElaborationSignals],
          n \in 0..MaxBranchingNodes, e \in 0..(2 * MaxBranchingNodes) :
           killed_in_save(Synthesis("topic", "resolution"), contra, elab, n, e)
    /\ UNCHANGED sideVars

NextBranching == BrPassage \/ BrBranch \/ BrTurn \/ BrLlmError \/ BrCreate \/ BrKilled

SpecBranching == InitSession /\ [][NextBranching]_vars

----------------------------------------------------------------------------
(* SpecLifecycle: between the debates of a session its graph is also written to
   directly with add_node and add_edge, searched for edges and linearized *)

MaxLifeSize == 4  \* nodes plus edges of the graph

LifePassage ==
    /\ Len(nodes) + Len(edges) < MaxLifeSize
    /\ process_passage("When Zarathustra", 1, 1)
    /\ UNCHANGED sideVars

LifeBranch ==
    \E parent \in NodeIdInputs(nodes) :
        /\ Len(nodes) + Len(edges) + 1 < MaxLifeSize
        /\ process_branch("Why thirty?", parent, 1, 1)
        /\ UNCHANGED sideVars

LifeTurn == debate_turn(Noted) /\ UNCHANGED sideVars

LifeLlmError == llm_error /\ UNCHANGED sideVars

LifeCreate ==
    /\ \E contra \in [NodeIdsOf(nodes) -> PlainContradictionSignals],
          elab \in [NodeIdsOf(nodes) -> PlainElaborationSignals] :
           create_node(Synthesis("topic", "resolution"), contra, elab)
    /\ Len(nodes') + Len(edges') <= MaxLifeSize
    /\ UNCHANGED sideVars

LifeAddNode ==
    \E id \in NodeIdInputs(nodes) :
        /\ sess.pc = "idle"
        /\ Len(nodes) + Len(edges) < MaxLifeSize
        /\ add_node(ArgumentNode(id, 1, Len(nodes) + 1))
        /\ UNCHANGED <<detVars, sess, sideVars>>

LifeAddEdge ==
    \E from \in NodeIdInputs(nodes), to \in NodeIdsOf(nodes) :
        /\ sess.pc = "idle"
        /\ Len(nodes) + Len(edges) < MaxLifeSize
        /\ add_edge(Edge(from, to, "CONTRADICTS", 1))
        /\ UNCHANGED <<detVars, sess, sideVars>>

LifeDetectAll ==
    \E c \in WeakOrStrongContradiction :
        /\ sess.pc = "idle"
        /\ detect_all_edges([p \in ContradictionPairs(SortedByCreated(nodes)) |-> c],
                            [p \in ElaborationPairs(SortedByCreated(nodes)) |->
                                ElaborationSignal(0, 0, 0)])
        /\ UNCHANGED <<detVars, sess, sideVars>>

LifeLinearize ==
    /\ sess.pc = "idle"
    /\ linearize
    /\ UNCHANGED <<detVars, sess, sideVars>>

NextLifecycle ==
    LifePassage \/ LifeBranch \/ LifeTurn \/ LifeLlmError \/ LifeCreate
        \/ LifeAddNode \/ LifeAddEdge \/ LifeDetectAll \/ LifeLinearize

SpecLifecycle == InitSession /\ [][NextLifecycle]_vars

----------------------------------------------------------------------------
(* SpecAgree: synthesis and impasse nodes on one topic, with a short or a long
   resolution, are inserted in chronological order; the edges of the latest node are
   inferred both ways *)

MaxAgreeNodes == 3  \* nodes of the graph

AgreeAddNode ==
    \E v \in 2..3, resolution \in {TopicText, DenialText} :
        /\ Len(nodes) < MaxAgreeNodes
        /\ add_node([ArgumentNode(Len(nodes) + 1, v, Len(nodes) + 1) EXCEPT
                         !.topic = TopicText, !.resolution = resolution])
        /\ UNCHANGED <<detVars, sess, sideVars>>

AgreeInfer == infer_both_ways /\ UNCHANGED <<detVars, sess, sideVars>>

NextAgree == AgreeAddNode \/ AgreeInfer

SpecAgree == Init /\ [][NextAgree]_vars

----------------------------------------------------------------------------
(* SpecResume: a session is resumed from a graph file that it finds on disk, and
   nodes and edges are inserted into the restored graph *)

MaxFileNodes == 2   \* node entries of the graph file
MaxFileEdges == 2   \* edge entries of the graph file
MaxResumeSize == 5  \* nodes plus edges of the resumed graph

\* the edge entries a graph file may hold
FileEdges ==
    {EdgeToDict(Edge(from, to, "CONTRADICTS", 1)) :
        from \in 1..MaxFileNodes, to \in 1..(MaxFileNodes + 1)}

\* the graph files: JSON documents of the layout DebateDAG.save writes
GraphFiles ==
    {[metadata |-> NewMetadata,
      nodes |-> [i \in 1..n |-> NodeToDict(ArgumentNode(i, 1, i))],
      edges |-> es] :
        n \in 0..MaxFileNodes,
        es \in UNION {[1..k -> FileEdges] : k \in 0..MaxFileEdges}}

InitResume ==
    /\ nodes = <<>>
    /\ edges = <<>>
    /\ metadata = NewMetadata
    /\ last = "init"
    /\ ret = "return"
    /\ order = <<>>
    /\ file \in {<<document>> : document \in GraphFiles}
    /\ InitDetectorIdle
    /\ InitSessionIdle
    /\ InitSideIdle

\* DebateSession(session_name, load_existing=True) with the file present
ResumeLoad ==
    /\ last = "init"
    /\ load
    /\ UNCHANGED <<detVars, sess, sideVars>>

ResumeAddNode ==
    \E id \in NodeIdInputs(nodes) :
        /\ last /= "init"
        /\ Len(nodes) + Len(edges) < MaxResumeSize
        /\ add_node(ArgumentNode(id, 1, Len(nodes) + 1))
        /\ UNCHANGED <<detVars, sess, sideVars>>

ResumeAddEdge ==
    \E from \in NodeIdInputs(nodes), to \in NodeIdInputs(nodes) :
        /\ last /= "init"
        /\ Len(nodes) + Len(edges) < MaxResumeSize
        /\ add_edge(Edge(from, to, "CONTRADICTS", 1))
        /\ UNCHANGED <<detVars, sess, sideVars>>

ResumeSave ==
    /\ last \in {"add_node", "add_edge"}
    /\ save
    /\ UNCHANGED <<detVars, sess, sideVars>>

NextResume == ResumeLoad \/ ResumeAddNode \/ ResumeAddEdge \/ ResumeSave

SpecResume == InitResume /\ [][NextResume]_vars

----------------------------------------------------------------------------
(* Vocabulary of the properties *)

NoDuplicateEdges(es) ==
    \A i, j \in 1..Len(es) : SameTriple(es[i], es[j]) => i = j

EndpointsExist(ns, es) ==
    \A i \in 1..Len(es) :
        es[i].from_node_id \in NodeIdsOf(ns) /\ es[i].to_node_id \in NodeIdsOf(ns)

\* the targets of the edges that leave a node of S
Successors(es, S) == {es[i].to_node_id : i \in {j \in 1..Len(es) : es[j].from_node_id \in S}}

RECURSIVE Descendants(_, _)
\* the nodes reachable from S by one or more edges
Descendants(es, S) ==
    LET T == S \cup Successors(es, S)
    IN IF T = S THEN Successors(es, S) ELSE Descendants(es, T) \cup Successors(es, S)

\* a directed cycle (a self-loop included), by reachability
HasCycle(ns, es) == \E id \in NodeIdsOf(ns) : id \in Descendants(es, {id})

\* the position of a node id in a list of ids (0 when absent)
Position(s, id) == IF \E i \in 1..Len(s) : s[i] = id
                   THEN CHOOSE i \in 1..Len(s) : s[i] = id ELSE 0

\* s lists every node id exactly once
IsPermutationOfNodes(s, ns) ==
    /\ Len(s) = Len(ns)
    /\ \A id \in NodeIdsOf(ns) : Cardinality({i \in 1..Len(s) : s[i] = id}) = 1

----------------------------------------------------------------------------
(* Properties of DebateDAG insertions (Spec) *)

\* C1: the edge list never holds two edges with the same (from_node_id, to_node_id,
\* edge_type); an add_edge whose triple is already present returns without raising
\* and leaves the edge list unchanged, so the first edge's description and
\* confidence are kept.
C1_NoDuplicateEdges ==
    /\ [](NoDuplicateEdges(edges))
    /\ [][last' = "add_edge" =>
            \A i \in 1..Len(edges), v \in 1..2 :
                LET e == Edge(edges[i].from_node_id, edges[i].to_node_id,
                              edges[i].edge_type, v)
                IN add_edge(e) => (ret' = "return: duplicate skipped" /\ edges' = edges)]_vars

\* a duplicate add_edge has just returned, with a graph that holds edges
C1_Witness ==
    /\ last = "add_edge"
    /\ ret = "return: duplicate skipped"
    /\ Len(edges) >= 2

\* C2: both endpoints of every stored edge are ids of the node map; add_edge with
\* a from or to id that is not in the node map raises and leaves the node map and
\* the edge list unchanged.
C2_EndpointsExist ==
    /\ [](EndpointsExist(nodes, edges))
    /\ [][last' = "add_edge" =>
            \A from \in NodeIdInputs(nodes), to \in NodeIdInputs(nodes) :
                (from \notin NodeIdsOf(nodes) \/ to \notin NodeIdsOf(nodes)) =>
                    \A kind \in LinKinds, v \in 1..2 :
                        add_edge(Edge(from, to, kind, v))
                            => /\ ret' \in {"ValueError: source not found",
                                           "ValueError: target not found"}
                               /\ nodes' = nodes
                               /\ edges' = edges]_vars

\* add_edge has just raised for a missing target on a graph that holds an edge
C2_Witness ==
    /\ last = "add_edge"
    /\ ret = "ValueError: target not found"
    /\ Len(nodes) >= 1
    /\ Len(edges) >= 1

\* C3: add_node with an id that is already in the graph raises and changes nothing:
\* the node stored under the id is kept and no edge is added or removed.
C3_DuplicateNodeRaises ==
    [][last' = "add_node" =>
         \A id \in NodeIdsOf(nodes), v \in 1..2 :
             add_node(ArgumentNode(id, v, 1))
                 => (ret' = "ValueError: already exists" /\ nodes' = nodes /\ edges' = edges)]_vars

\* add_node has just raised on a graph that holds nodes of both payloads and an edge
C3_Witness ==
    /\ last = "add_node"
    /\ ret = "ValueError: already exists"
    /\ Len(edges) >= 1
    /\ \E i, j \in 1..Len(nodes) : nodes[i].node_type /= nodes[j].node_type

----------------------------------------------------------------------------
(* Properties of persistence (SpecPersist) *)

\* C4: load(save(g)) = g for every graph g built by insertions: the same nodes in
\* the same order with every field equal, the same edges in the same order, the
\* same metadata.
C4_RoundTrip ==
    LET g == DagLoad(DagSave(nodes, edges, metadata))
    IN /\ g.nodes = nodes
       /\ g.edges = edges
       /\ g.metadata = metadata

\* a graph with tags, claims, turns, a fractional and a whole-second created_at and
\* edges of both payloads has been saved and loaded back
C4_Witness ==
    /\ last = "load"
    /\ Len(nodes) = 2
    /\ \E i, j \in 1..Len(nodes) :
          /\ nodes[i].theme_tags /= {} /\ nodes[i].key_claims /= <<>>
          /\ nodes[i].created_at % 1000000 /= 0
          /\ nodes[j].turns_data /= <<>>
          /\ nodes[j].created_at % 1000000 = 0
    /\ \E i, j \in 1..Len(edges) :
          edges[i].description = None /\ edges[j].confidence = 80

----------------------------------------------------------------------------
(* Properties of linearization (SpecLinear) *)

\* for every edge (u, v), u comes before v in the returned order
TopologicalOrder(s, es) ==
    \A i \in 1..Len(es) :
        /\ Position(s, es[i].from_node_id) > 0
        /\ Position(s, es[i].from_node_id) < Position(s, es[i].to_node_id)

BranchEdge(from, to) == Edge(from, to, "BRANCHES_FROM", 1)

\* root 1 with branches 2 and 3, 3 created after 2, and no other edge
RootWithTwoBranches ==
    /\ Len(nodes) = 3
    /\ NodeById(nodes, 1).created_at < NodeById(nodes, 2).created_at
    /\ NodeById(nodes, 2).created_at < NodeById(nodes, 3).created_at
    /\ Len(edges) = 2
    /\ Range(edges) = {BranchEdge(1, 2), BranchEdge(1, 3)}

\* C6 as stated: on an acyclic graph linearize returns a topological order, and a
\* root A with branches B and C, C created after B, linearizes as A, B, C.
C6_AsStated ==
    last = "linearize" =>
        /\ ~HasCycle(nodes, edges) => TopologicalOrder(order, edges)
        /\ RootWithTwoBranches => order = <<1, 2, 3>>

\* C6 amended: on an acyclic graph linearize returns a topological order; a root A
\* whose only edges are BranchesFrom A -> B and A -> C linearizes as A, B, C when
\* the edge to B was inserted before the edge to C (nodes freed by the same parent
\* come out in edge-insertion order, whatever their creation times).
C6_TopologicalOrder ==
    last = "linearize" =>
        /\ ~HasCycle(nodes, edges) => TopologicalOrder(order, edges)
        /\ (Len(nodes) = 3 /\ edges = <<BranchEdge(1, 2), BranchEdge(1, 3)>>)
               => order = <<1, 2, 3>>

\* the scenario graph, with the edges inserted in creation order, has been linearized
C6_Witness ==
    /\ last = "linearize"
    /\ RootWithTwoBranches
    /\ edges = <<BranchEdge(1, 2), BranchEdge(1, 3)>>
    /\ order = <<1, 2, 3>>

\* s is in non-decreasing created_at order
Chronological(s, ns) ==
    \A i, j \in 1..Len(s) :
        i < j => NodeById(ns, s[i]).created_at <= NodeById(ns, s[j]).created_at

\* C7: when the edges contain a cycle, linearize does not raise: it returns all
\* node ids in chronological created_at order (and prints the warning).
C7_CycleFallback ==
    (last = "linearize" /\ HasCycle(nodes, edges)) =>
        /\ ret = "return: Warning: Cycle detected"
        /\ IsPermutationOfNodes(order, nodes)
        /\ Chronological(order, nodes)

\* a cyclic graph of three nodes, inserted out of creation order, has been linearized
C7_Witness ==
    /\ last = "linearize"
    /\ HasCycle(nodes, edges)
    /\ Len(nodes) = 3
    /\ order /= [i \in 1..Len(nodes) |-> nodes[i].node_id]

----------------------------------------------------------------------------
(* Properties of the completion detector (SpecDetector) *)

\* the text of the turns from index i to the last one, a space between two turns
RECURSIVE TextFrom(_)
TextFrom(i) ==
    IF i = Len(transcript) THEN transcript[i].content
    ELSE transcript[i].content \o <<" ">> \o TextFrom(i + 1)

\* the lower-cased text of the last n turns (of all turns when there are fewer)
LastTurnsText(n) ==
    Lower(TextFrom(IF Len(transcript) > n THEN Len(transcript) - n + 1 ELSE 1))

\* one of the phrases occurs in the text
PhraseIn(phrases, text) == \E p \in Range(phrases) : Contains(text, p)

\* the rules of the decision order, on the transcript and the question of the check
ImpasseRule == PhraseIn(impasse_markers, LastTurnsText(2))
SynthesisRule == PhraseIn(synthesis_markers, LastTurnsText(2))
AnswerRule ==
    /\ Truthy(question)
    /\ Len(transcript) >= 3
    /\ PhraseIn(answer_indicators, LastTurnsText(3))
RepetitionRule == DetectRepetition(transcript)
BudgetRule == Len(transcript) >= max_turns

\* check_completion has been called on the transcript as it is now
Checked == last = "check_completion" /\ verdict /= Unchecked

\* C8: for every non-empty transcript, check_completion returns the outcome of the
\* first rule that matches, in the order impasse marker in the last two turns ->
\* Impasse, synthesis marker in the last two turns -> Synthesis, question answered
\* in the last three turns (only with a branch question) -> Synthesis, repetition ->
\* Impasse, turn budget reached -> Exploration, otherwise not complete; with both
\* an impasse and a synthesis marker in the last two turns the outcome is Impasse.
C8_FirstMatchingRule ==
    (Checked /\ Len(transcript) > 0) =>
        /\ ImpasseRule => verdict = <<TRUE, "IMPASSE">>
        /\ (~ImpasseRule /\ SynthesisRule) => verdict = <<TRUE, "SYNTHESIS">>
        /\ (~ImpasseRule /\ ~SynthesisRule /\ AnswerRule) => verdict = <<TRUE, "SYNTHESIS">>
        /\ (~ImpasseRule /\ ~SynthesisRule /\ ~AnswerRule /\ RepetitionRule)
               => verdict = <<TRUE, "IMPASSE">>
        /\ (~ImpasseRule /\ ~SynthesisRule /\ ~AnswerRule /\ ~RepetitionRule /\ BudgetRule)
               => verdict = <<TRUE, "EXPLORATION">>
        /\ (~ImpasseRule /\ ~SynthesisRule /\ ~AnswerRule /\ ~RepetitionRule /\ ~BudgetRule)
               => verdict = <<FALSE, None>>
        /\ (ImpasseRule /\ SynthesisRule) => verdict = <<TRUE, "IMPASSE">>

\* a check of a transcript whose last two turns are "We agree" and "unresolved":
\* a synthesis marker in one turn, an impasse marker in the other, outcome Impasse
C8_Witness ==
    /\ Checked
    /\ Len(transcript) >= 2
    /\ transcript[Len(transcript) - 1].content = WeAgree
    /\ transcript[Len(transcript)].content = Unresolved
    /\ verdict = <<TRUE, "IMPASSE">>

\* C9: a check of a transcript whose length has reached max_turns returns
\* is_complete = True, with the kind Exploration when no earlier rule matches; the
\* caller that consults the detector then appends no further turn.
C9_TurnBudget ==
    /\ []((Checked /\ BudgetRule) => verdict[1] = TRUE)
    /\ []((Checked /\ BudgetRule /\ ~ImpasseRule /\ ~SynthesisRule /\ ~AnswerRule
             /\ ~RepetitionRule) => verdict = <<TRUE, "EXPLORATION">>)
    /\ [][(Checked /\ BudgetRule) => transcript' = transcript]_vars

\* a check of a transcript of exactly max_turns turns that no earlier rule matches
C9_Witness ==
    /\ Checked
    /\ Len(transcript) = max_turns
    /\ ~ImpasseRule /\ ~SynthesisRule /\ ~AnswerRule /\ ~RepetitionRule
    /\ verdict = <<TRUE, "EXPLORATION">>

----------------------------------------------------------------------------
(* Properties of the session's graph (SpecSession) *)

\* no edge leads from a node to itself
NoSelfLoop(es) == \A i \in 1..Len(es) : es[i].from_node_id /= es[i].to_node_id

\* C5: after any sequence of process_passage and process_branch calls, with the
\* BRANCHES_FROM edge and the inferred CONTRADICTS / ELABORATES edges they insert,
\* the edges contain no directed cycle and no self-loop.
C5_Acyclic == ~HasCycle(nodes, edges) /\ NoSelfLoop(edges)

----------------------------------------------------------------------------
(* The branch selector *)

\* select_branches has returned
SelReturned == selection.pc = "returned"

\* C11: whatever the candidate list (lists holding equal flags included), max_branches
\* and the strategy, the two lists select_branches returns have together as many
\* elements as the list of candidates.
C11_Conservation ==
    SelReturned => Len(selection.selected) + Len(selection.stubbed) = Len(selection.candidates)

\* C12: when the list is no longer than max_branches, select_branches returns the
\* candidates themselves in their original order, defers none and has asked the
\* generator for no score, whatever the strategy.
C12_SelectAll ==
    (SelReturned /\ Len(selection.candidates) <= selection.max_branches) =>
        /\ selection.selected = selection.candidates
        /\ selection.stubbed = <<>>
        /\ selection.llm_calls = 0

\* a scoring strategy was asked for two candidates, the less urgent first, and both fit
C12_Witness ==
    /\ SelReturned
    /\ selection.strategy = "deep"
    /\ Len(selection.candidates) = 2
    /\ selection.max_branches = 2
    /\ selection.candidates[1].urgency < selection.candidates[2].urgency
    /\ selection.selected = selection.candidates

\* the strategy name makes select_branches dispatch to _select_diverse
DiverseStrategy == selection.strategy \notin {"urgent", "deep", "meta"}

\* t is the earliest candidate of maximal urgency
EarliestMostUrgent(t, candidates) ==
    \E i \in 1..Len(candidates) :
        /\ candidates[i] = t
        /\ \A j \in 1..Len(candidates) : candidates[j].urgency <= t.urgency
        /\ \A j \in 1..(i - 1) : candidates[j].urgency < t.urgency

\* C13 as stated: under "diverse" or an unrecognised strategy name, the first element
\* of every selected list is the earliest candidate of maximal urgency.
C13_AsStated ==
    (SelReturned /\ DiverseStrategy /\ selection.selected /= <<>>) =>
        EarliestMostUrgent(selection.selected[1], selection.candidates)

\* C13: under "diverse" or an unrecognised strategy name, when there are more candidates
\* than max_branches, the selected list is not empty and its first element is the
\* earliest candidate of maximal urgency.
C13_DiverseSeed ==
    (SelReturned /\ DiverseStrategy /\ Len(selection.candidates) > selection.max_branches) =>
        /\ selection.selected /= <<>>
        /\ EarliestMostUrgent(selection.selected[1], selection.candidates)

\* an unrecognised strategy chose among three candidates: the first is less urgent, the
\* other two are different flags that tie on the highest urgency
C13_Witness ==
    /\ SelReturned
    /\ selection.strategy = "newest"
    /\ Len(selection.candidates) = 3
    /\ selection.max_branches = 2
    /\ selection.candidates[1].urgency < selection.candidates[2].urgency
    /\ selection.candidates[2].urgency = selection.candidates[3].urgency
    /\ selection.candidates[2] /= selection.candidates[3]
    /\ selection.selected[1] = selection.candidates[2]
    /\ selection.llm_calls > 0

\* how many times t occurs in lst
Occurrences(lst, t) == Cardinality({k \in 1..Len(lst) : lst[k] = t})

\* C14: under "urgent" with more candidates than max_branches, the selected list holds
\* max_branches candidates in descending order of urgency, no candidate left out is
\* more urgent than a selected one, and no deferred flag is more urgent than a selected one.
C14_UrgentTop ==
    (SelReturned /\ selection.strategy = "urgent"
        /\ Len(selection.candidates) > selection.max_branches) =>
        /\ Len(selection.selected) = selection.max_branches
        /\ \A i, j \in 1..Len(selection.selected) :
               i < j => selection.selected[i].urgency >= selection.selected[j].urgency
        /\ \A t \in Range(selection.selected) :
               Occurrences(selection.selected, t) <= Occurrences(selection.candidates, t)
        /\ \A t \in Range(selection.candidates) :
               Occurrences(selection.selected, t) < Occurrences(selection.candidates, t) =>
                   \A k \in 1..Len(selection.selected) : selection.selected[k].urgency >= t.urgency
        /\ \A k \in 1..Len(selection.selected), j \in 1..Len(selection.stubbed) :
               selection.selected[k].urgency >= selection.stubbed[j].urgency

\* urgent chose two of three candidates whose first is the least urgent, and deferred it
C14_Witness ==
    /\ SelReturned
    /\ selection.strategy = "urgent"
    /\ Len(selection.candidates) = 3
    /\ selection.max_branches = 2
    /\ selection.candidates[1].urgency < selection.candidates[2].urgency
    /\ selection.candidates[1].urgency < selection.candidates[3].urgency
    /\ selection.stubbed = <<selection.candidates[1]>>

----------------------------------------------------------------------------
(* The branch stub *)

\* C15: should_revisit on a stub whose status is not "stub" returns False with the
\* reason "Already <status>", calls the generator not at all and appends nothing to
\* the revisit checks.
C15_SettledStubNoOp ==
    [][(stub.pc = "idle" /\ stub.status /= "stub" /\ stub'.last = "should_revisit") =>
           /\ stub'.ret = StubResult("return", FALSE, <<"Already", " ", stub.status>>, "")
           /\ stub'.pc = "idle"
           /\ stub'.llm_calls = stub.llm_calls
           /\ stub'.revisit_checks = stub.revisit_checks]_vars

\* a stub that was checked, then marked explored, has been asked again
C15_Witness ==
    /\ stub.status = "explored"
    /\ stub.last = "should_revisit"
    /\ stub.ret = StubResult("return", FALSE, <<"Already", " ", "explored">>, "")
    /\ Len(stub.revisit_checks) = 2
    /\ stub.llm_calls = 1

\* C16: once the status is "explored" or "superseded" no step changes it.
C16_SettledStatusStays ==
    [][stub.status \in {"explored", "superseded"} => stub'.status = stub.status]_vars

\* C17: no step of should_revisit changes the status or a field given at construction,
\* and the status only changes to "explored" by mark_explored and to "superseded" by
\* mark_superseded.
C17_RevisitReadOnly ==
    [][/\ stub'.last = "should_revisit" =>
              (stub'.status = stub.status /\ stub'.core = stub.core)
       /\ stub'.status /= stub.status =>
              \/ stub'.status = "explored" /\ stub'.last = "mark_explored"
              \/ stub'.status = "superseded" /\ stub'.last = "mark_superseded"]_vars

\* should_revisit has answered True twice and the stub is still a stub
C17_Witness ==
    /\ stub.last = "should_revisit"
    /\ stub.pc = "idle"
    /\ stub.ret.kind = "return"
    /\ stub.ret.value
    /\ Len(stub.revisit_checks) = 2
    /\ "should_explore" \in DOMAIN stub.revisit_checks[1]
    /\ stub.revisit_checks[1].should_explore
    /\ stub.llm_calls = 2
    /\ stub.status = "stub"

\* C18: every call of should_revisit on a stub of status "stub" that the generator
\* answered, or that needed no answer, has appended exactly one entry to the revisit
\* checks and left the earlier entries as they were.
C18_EveryCheckLogged ==
    [][(/\ stub.status = "stub"
        /\ stub'.last = "should_revisit"
        /\ stub'.pc = "idle"
        /\ stub' /= stub
        /\ stub'.ret.error /= "ConnectionError") =>
           /\ Len(stub'.revisit_checks) = Len(stub.revisit_checks) + 1
           /\ SubSeq(stub'.revisit_checks, 1, Len(stub.revisit_checks)) = stub.revisit_checks]_vars

----------------------------------------------------------------------------
(* Inference of BRANCHES_FROM edges *)

\* nodes[i] comes before nodes[j] in chronological order: created earlier or, created
\* at the same time, inserted earlier
Precedes(i, j) ==
    \/ nodes[i].created_at < nodes[j].created_at
    \/ nodes[i].created_at = nodes[j].created_at /\ i < j

\* nodes[r] is the last node without a branch question that comes before nodes[b]
CurrentRootOf(r, b) ==
    /\ ~HasBranchQuestion(nodes[r])
    /\ Precedes(r, b)
    /\ \A q \in 1..Len(nodes) :
           (~HasBranchQuestion(nodes[q]) /\ Precedes(q, b)) => (q = r \/ Precedes(q, r))

\* the inferred edges that end at nodes[b]
InferredInto(b) == {i \in 1..Len(ret) : ret[i].to_node_id = nodes[b].node_id}

\* C19 as stated: every node that has a branch question gets a BRANCHES_FROM edge of
\* confidence 1.0 from the current root.
C19_AsStated ==
    last = "detect_branches_from" =>
        \A b \in 1..Len(nodes) :
            HasBranchQuestion(nodes[b]) =>
                \E i \in InferredInto(b), r \in 1..Len(nodes) :
                    /\ CurrentRootOf(r, b)
                    /\ ret[i].from_node_id = nodes[r].node_id
                    /\ ret[i].edge_type = "BRANCHES_FROM"
                    /\ ret[i].confidence = 100

\* C19: in chronological order, every node with a branch question that comes after a
\* node without one gets exactly one edge, a BRANCHES_FROM edge of confidence 1.0 from
\* the last node without a branch question before it; a node with a branch question
\* that comes before every node without one gets none, and no other edge is inferred.
C19_BranchesFromLastRoot ==
    last = "detect_branches_from" =>
        /\ \A b \in 1..Len(nodes) :
               IF HasBranchQuestion(nodes[b]) /\ \E r \in 1..Len(nodes) : CurrentRootOf(r, b)
               THEN /\ Cardinality(InferredInto(b)) = 1
                    /\ \A i \in InferredInto(b) :
                           /\ \E r \in 1..Len(nodes) :
                                  CurrentRootOf(r, b) /\ ret[i].from_node_id = nodes[r].node_id
                           /\ ret[i].edge_type = "BRANCHES_FROM"
                           /\ ret[i].confidence = 100
               ELSE InferredInto(b) = {}
        /\ \A i \in 1..Len(ret) : \E b \in 1..Len(nodes) : i \in InferredInto(b)

\* two main nodes and a branch node inserted first but created between them: the
\* branch hangs from the main node created before it, not from the latest one
C19_Witness ==
    /\ last = "detect_branches_from"
    /\ Len(nodes) = 3
    /\ HasBranchQuestion(nodes[1])
    /\ ~HasBranchQuestion(nodes[2])
    /\ ~HasBranchQuestion(nodes[3])
    /\ nodes[3].created_at < nodes[1].created_at
    /\ nodes[1].created_at < nodes[2].created_at
    /\ Len(ret) = 1
    /\ ret[1].from_node_id = nodes[3].node_id

\* C20: in every graph the session builds, every edge's confidence lies between 0.0
\* and 1.0 (0 and 100 hundredths), and every BRANCHES_FROM edge has confidence 1.0
C20_ConfidenceRange ==
    \A i \in 1..Len(edges) :
        /\ edges[i].confidence >= 0
        /\ edges[i].confidence <= 100
        /\ edges[i].edge_type = "BRANCHES_FROM" => edges[i].confidence = 100

\* a branch debate has been recorded: its BRANCHES_FROM edge stands next to an inferred
\* edge whose score lies strictly inside the range
C20_Witness ==
    /\ last = "process_branch"
    /\ \E i \in 1..Len(edges) : edges[i].edge_type = "BRANCHES_FROM"
    /\ \E i \in 1..Len(edges) :
           /\ edges[i].edge_type \in {"CONTRADICTS", "ELABORATES"}
           /\ edges[i].confidence > 50
           /\ edges[i].confidence < 100

\* C21: a pair whose combined contradiction score is exactly 0.5 (5000
\* ten-thousandths) gets no CONTRADICTS edge, and a pair that scores 0.51 gets one
C21_StrictThreshold ==
    last = "_check_contradiction" =>
        LET total_score == ContradictionScore(ret.node1, ret.node2, ret.signal)
        IN  /\ total_score = 5000 => ret.edge = <<>>
            /\ total_score = 5100 =>
                   /\ Len(ret.edge) = 1
                   /\ ret.edge[1].edge_type = "CONTRADICTS"
                   /\ {ret.edge[1].from_node_id, ret.edge[1].to_node_id}
                          = {ret.node1.node_id, ret.node2.node_id}

\* a synthesis and an impasse node on similar topics whose claims score 0.75 have been
\* checked: 0.4 x 0.75 + 0.2 is exactly 0.5, and no edge came back
C21_Witness ==
    /\ last = "_check_contradiction"
    /\ ret.signal = ContradictionSignal(0, 750, 1000)
    /\ ret.node1.node_type = "SYNTHESIS"
    /\ ret.node2.node_type = "IMPASSE"
    /\ ContradictionScore(ret.node1, ret.node2, ret.signal) = 5000
    /\ ret.edge = <<>>

\* detect_all_edges has returned, for all pairs or for one node
EdgesInferred == last \in {"detect_all_edges", "detect_all_edges(new_node)"}

\* the CONTRADICTS and ELABORATES edges among the returned ones
SemanticEdges == {i \in 1..Len(ret) : ret[i].edge_type \in {"CONTRADICTS", "ELABORATES"}}

CreatedAt(node_id) == NodeById(nodes, node_id).created_at

\* C22 as stated: every CONTRADICTS or ELABORATES edge the detector returns, for all
\* pairs or for one node, runs from the later node to the earlier one
C22_AsStated ==
    EdgesInferred =>
        \A i \in SemanticEdges : CreatedAt(ret[i].from_node_id) > CreatedAt(ret[i].to_node_id)

\* C22: every CONTRADICTS or ELABORATES edge the detector returns between two nodes
\* with different creation times, for all pairs or for one node, runs from the later
\* node to the earlier one
C22_LaterToEarlier ==
    EdgesInferred =>
        \A i \in SemanticEdges :
            CreatedAt(ret[i].from_node_id) /= CreatedAt(ret[i].to_node_id)
                => CreatedAt(ret[i].from_node_id) > CreatedAt(ret[i].to_node_id)

\* all pairs of a graph whose first inserted node is the earlier one have been
\* checked, (earlier, later), and the later node contradicts and elaborates the earlier
C22_Witness ==
    /\ last = "detect_all_edges"
    /\ Len(nodes) = 2
    /\ nodes[1].created_at < nodes[2].created_at
    /\ \E i, j \in SemanticEdges :
           /\ ret[i].edge_type = "CONTRADICTS"
           /\ ret[j].edge_type = "ELABORATES"
           /\ ret[i].from_node_id = nodes[2].node_id
           /\ ret[j].from_node_id = nodes[2].node_id

\* the place of an observer in the monitor's list of observers
ObserverIndex(observer_name) == CHOOSE k \in 1..Len(Observers) : Observers[k] = observer_name

\* C23: the monitor's flag list only grows at its end: a process_turn that returns
\* leaves the previous list followed by exactly the flags it returned, at most one per
\* observer and in observer order; a query leaves the list as it was; no step removes,
\* reorders or alters an earlier flag
C23_FlagsAdditive ==
    [][/\ Len(monitor'.flagged_tensions) >= Len(monitor.flagged_tensions)
       /\ SubSeq(monitor'.flagged_tensions, 1, Len(monitor.flagged_tensions))
              = monitor.flagged_tensions
       /\ (monitor'.last = "process_turn" /\ ~monitor'.raised) =>
              /\ monitor'.flagged_tensions = monitor.flagged_tensions \o monitor'.ret
              /\ \A i, j \in 1..Len(monitor'.ret) :
                     i < j => ObserverIndex(monitor'.ret[i].observer_name)
                                 < ObserverIndex(monitor'.ret[j].observer_name)
       /\ monitor'.last /= "process_turn" =>
              monitor'.flagged_tensions = monitor.flagged_tensions]_vars

\* a second turn has been processed: its one flag stands after the flag of turn 1
C23_Witness ==
    /\ monitor.last = "process_turn"
    /\ ~monitor.raised
    /\ Len(monitor.ret) = 1
    /\ Len(monitor.flagged_tensions) = 2
    /\ monitor.flagged_tensions[2] = monitor.ret[1]
    /\ monitor.flagged_tensions[1].turn_number = 1
    /\ monitor.ret[1].turn_number = 2

\* C24: the flags of a monitor have pairwise distinct ids, and so have the stubs built
\* from them
C24_FreshIds ==
    \A i, j \in 1..Len(monitor.flagged_tensions) :
        i /= j =>
            /\ monitor.flagged_tensions[i].flag_id /= monitor.flagged_tensions[j].flag_id
            /\ StubIdOf(monitor.flagged_tensions[i]) /= StubIdOf(monitor.flagged_tensions[j])

\* the call in progress returns in this step
SessionReturns(call) == sess.pc = "creating" /\ sess.call = call /\ ret' = "return"

\* the turns of a debate of ScenarioAgents agents, as the node stores them: round after
\* round, the agents in list order within each round
InDebateOrder(turns_data) ==
    \A i \in 1..Len(turns_data) :
        /\ turns_data[i].round_num = ((i - 1) \div ScenarioAgents) + 1
        /\ turns_data[i].agent_name = AgentNames[((i - 1) % ScenarioAgents) + 1]

\* the step in which the passage debate returns makes one EXPLORATION node that holds
\* the n turns of the transcript in order, and the step in which the branch debate
\* returns adds one BRANCHES_FROM edge, from that node to the new one, of confidence 1.0
ScenarioStep(n) ==
    /\ SessionReturns("process_passage") =>
           /\ Len(transcript) = n
           /\ nodes = <<>>
           /\ Len(nodes') = 1
           /\ nodes'[1].node_type = "EXPLORATION"
           /\ Len(nodes'[1].turns_data) = n
           /\ \A i \in 1..Len(transcript) :
                  /\ nodes'[1].turns_data[i].agent_name = transcript[i].agent_name
                  /\ nodes'[1].turns_data[i].content = transcript[i].content
                  /\ nodes'[1].turns_data[i].round_num = transcript[i].round_num
           /\ InDebateOrder(nodes'[1].turns_data)
    /\ SessionReturns("process_branch") =>
           /\ Len(nodes') = 2
           /\ nodes'[1] = nodes[1]
           /\ \E i \in 1..Len(edges') :
                  /\ edges'[i].edge_type = "BRANCHES_FROM"
                  /\ edges'[i].from_node_id = nodes'[1].node_id
                  /\ edges'[i].to_node_id = nodes'[2].node_id
                  /\ edges'[i].confidence = 100
                  /\ \A j \in 1..Len(edges') :
                         edges'[j].edge_type = "BRANCHES_FROM" => j = i

\* C25: three agents debating a passage for three rounds leave a transcript
\* of 10 turns, all kept in order in the one EXPLORATION node; a branch question on
\* that node then adds a BRANCHES_FROM edge from it to the new node, confidence 1.0
C25_AsStated == [][ScenarioStep(10)]_vars

\* C26: node synthesis (the session is creating the node) starts only after the
\* completion detector has said complete for the transcript of the debate
C26_FinalizingAfterCompletion ==
    sess.pc = "creating" =>
        /\ verdict /= Unchecked
        /\ verdict = CheckCompletion(transcript, question, max_turns)
        /\ SaidComplete(verdict)

\* the additions to the graph among the calls of a handler
IsAddition(op) == op \in {"add_node", "add_edge"}

\* C27: between any two consecutive additions to the graph that process_passage or
\* process_branch makes (a node, an edge) there is a save of the graph file
C27_SaveAfterEachAddition ==
    \A i \in 1..(Len(sess.ops) - 1) :
        ~(IsAddition(sess.ops[i]) /\ IsAddition(sess.ops[i + 1]))

\* a step in which the generator raises inside process_passage or process_branch: the
\* call ends with the exception, the caller gets it, the graph and the file are as
\* they were
ErrorPropagates ==
    (sess.pc /= "idle" /\ ret' = "CalledProcessError") =>
        /\ last' = sess.call
        /\ sess'.pc = "idle"
        /\ nodes' = nodes
        /\ edges' = edges
        /\ file' = file

\* C28: when the generator raises a transport error during a debate turn or during
\* node synthesis, the error reaches the caller, no node and no edge is added and the
\* graph file is not rewritten
C28_TransportErrorPropagates == [][ErrorPropagates]_vars

\* a branch call failed with the generator's error after an earlier call had saved
\* the graph: the file still holds that graph, which has no node of the branch
C28_Witness ==
    /\ ret = "CalledProcessError"
    /\ last = "process_branch"
    /\ sess.pc = "idle"
    /\ Len(nodes) >= 1
    /\ \A i \in 1..Len(nodes) : nodes[i].branch_question = None
    /\ file = <<DagSave(nodes, edges, metadata)>>

\* C29: no node with an empty topic or an empty resolution is ever added to the graph
C29_NoEmptyTopic ==
    \A i \in 1..Len(nodes) : nodes[i].topic /= "" /\ nodes[i].resolution /= ""

\* C30: in a debate the rounds go up, the agents of a round speak in list order, and
\* the prompt of the agent that spoke last holds the turn of every agent that spoke
\* before it in the same round, round 1 included
C30_SeesEarlierAgents ==
    (sess.pc \in {"debating", "creating"} /\ transcript /= <<>>) =>
        LET n == Len(transcript)
        IN /\ \A i \in 1..n :
                  /\ transcript[i].round_num = ((i - 1) \div sess.agents) + 1
                  /\ transcript[i].agent_name = AgentNames[((i - 1) % sess.agents) + 1]
           /\ \A i \in 1..(n - 1) :
                  transcript[i].round_num = transcript[n].round_num =>
                      transcript[i] \in Range(sess.prompt)

\* the transcript as it was at the end of round r of the running debate
AtEndOfRound(r) == SubSeq(transcript, 1, r * sess.agents)

\* the detector reports complete at the end of round r of the running branch debate
CompleteAfterRound(r) == CheckCompletion(AtEndOfRound(r), question, max_turns)[1]

\* C31: in a branch debate the detector is consulted at the end of each round; the
\* first round after which it reports complete is the last one generated, a debate it
\* never calls complete runs max_rounds rounds, so no branch debate has more than
\* max_rounds x |agents| turns
C31_EarlyStop ==
    (sess.call = "process_branch" /\ sess.pc \in {"debating", "creating"}) =>
        LET rounds_done == Len(transcript) \div sess.agents
        IN /\ Len(transcript) <= sess.max_rounds * sess.agents
           /\ sess.pc = "debating" =>
                  /\ rounds_done < sess.max_rounds
                  /\ sess.round_num = rounds_done + 1
                  /\ \A r \in 1..rounds_done : ~CompleteAfterRound(r)
           /\ sess.pc = "creating" =>
                  /\ Len(transcript) = rounds_done * sess.agents
                  /\ \A r \in 1..(rounds_done - 1) : ~CompleteAfterRound(r)
                  /\ CompleteAfterRound(rounds_done) \/ rounds_done = sess.max_rounds

\* a branch debate with a budget of two rounds ended after its first round, which the
\* detector called complete
C31_Witness ==
    /\ sess.call = "process_branch"
    /\ sess.pc = "creating"
    /\ sess.max_rounds = 2
    /\ Len(transcript) = sess.agents
    /\ CompleteAfterRound(1)

\* a branch debate the detector never called complete used up its two rounds
C31_WitnessBudget ==
    /\ sess.call = "process_branch"
    /\ sess.pc = "creating"
    /\ sess.max_rounds = 2
    /\ Len(transcript) = 2 * sess.agents
    /\ ~CompleteAfterRound(2)

\* the kind the detector gives a finished debate: its classification of the final
\* transcript, Exploration when it gives none
Classification(turns, q) ==
    LET node_type == CheckCompletion(turns, q, max_turns)[2]
    IN  IF node_type = None THEN "EXPLORATION" ELSE node_type

\* the step in which a call returns adds a node of the kind the detector gives the
\* transcript of the debate
KindIsClassification ==
    (sess.pc = "creating" /\ ret' = "return") =>
        nodes'[Len(nodes')].node_type = Classification(transcript, question)

\* C32: every node the session creates, for a main debate as for a branch debate, has
\* the kind the completion detector gives the final transcript of its debate
C32_KindIsClassification == [][KindIsClassification]_vars

\* the BRANCHES_FROM edges of the list es that point to the node node_id
IncomingBranchEdges(es, node_id) ==
    {i \in 1..Len(es) : es[i].edge_type = "BRANCHES_FROM" /\ es[i].to_node_id = node_id}

\* a node made by process_branch (it holds a branch question) has one incoming
\* BRANCHES_FROM edge, a node made by process_passage has none
BranchEdgesOf(ns, es) ==
    \A k \in 1..Len(ns) :
        Cardinality(IncomingBranchEdges(es, ns[k].node_id))
            = IF ns[k].branch_question /= None THEN 1 ELSE 0

\* the step in which process_branch returns: the one BRANCHES_FROM edge into the new node
\* comes from the parent the call was given
BranchEdgeFromParent ==
    SessionReturns("process_branch") =>
        \A i \in IncomingBranchEdges(edges', nodes'[Len(nodes')].node_id) :
            edges'[i].from_node_id = sess.parent

\* C33: after any sequence of process_passage and process_branch calls every node made
\* by process_branch has exactly one incoming BRANCHES_FROM edge, which comes from the
\* parent passed to that call, and no node made by process_passage has one
C33_OneBranchEdge ==
    [][BranchEdgeFromParent /\ BranchEdgesOf(nodes', edges')]_vars

\* after two passages a branch was made from the first of them, which is not the
\* latest main node, and inferred edges link the branch node to the others as well: the
\* branch node has its BRANCHES_FROM edge from the first node, the passages have none
C33_Witness ==
    /\ sess.pc = "idle"
    /\ last = "process_branch"
    /\ ret = "return"
    /\ Len(nodes) = 3
    /\ nodes[1].branch_question = None
    /\ nodes[2].branch_question = None
    /\ nodes[3].branch_question /= None
    /\ sess.current_main_node = nodes[2].node_id
    /\ Len(edges) >= 3
    /\ \E i \in IncomingBranchEdges(edges, nodes[3].node_id) :
           edges[i].from_node_id = nodes[1].node_id
    /\ IncomingBranchEdges(edges, nodes[1].node_id) = {}
    /\ IncomingBranchEdges(edges, nodes[2].node_id) = {}

\* the graph of a written document is whole: every edge of it joins nodes of it, no
\* two of its edges have the same ends and kind, and every branch node of it has a
\* BRANCHES_FROM edge
WholeGraph(document) ==
    LET ids == {document.nodes[k].node_id : k \in 1..Len(document.nodes)}
    IN /\ \A i \in 1..Len(document.edges) :
              /\ document.edges[i].from_node_id \in ids
              /\ document.edges[i].to_node_id \in ids
       /\ \A i, j \in 1..Len(document.edges) :
              (/\ document.edges[i].from_node_id = document.edges[j].from_node_id
               /\ document.edges[i].to_node_id = document.edges[j].to_node_id
               /\ document.edges[i].edge_type = document.edges[j].edge_type) => i = j
       /\ \A k \in 1..Len(document.nodes) :
              document.nodes[k].branch_question /= None =>
                  \E i \in 1..Len(document.edges) :
                      /\ document.edges[i].edge_type = EnumValue(EdgeType, "BRANCHES_FROM")
                      /\ document.edges[i].to_node_id = document.nodes[k].node_id

\* C35: at every point of a sequence of process_passage / process_branch calls, also
\* when a call is interrupted or the generator raises, the graph last written to the
\* session file is whole and not partially applied
C35_FileIsWhole == file /= NoFile => WholeGraph(file[1])

\* the list before is the beginning of the list after: what was stored is still there,
\* at its place and with every field as it was
Extends(before, after) ==
    /\ Len(before) <= Len(after)
    /\ \A i \in 1..Len(before) : after[i] = before[i]

\* C34: whatever is called (process_passage, process_branch, add_node, add_edge, edge
\* inference, linearization), the node map only gains entries, the edge list only gets
\* edges appended at its end, and no stored node or edge changes
C34_StoredIsImmutable == [][Extends(nodes, nodes') /\ Extends(edges, edges')]_vars

\* a graph that holds a node made by a debate, a node added directly and edges of both
\* origins has been linearized
C34_Witness ==
    /\ last = "linearize"
    /\ Len(nodes) >= 2
    /\ \E k \in 1..Len(nodes) : nodes[k].topic = "topic"
    /\ \E k \in 1..Len(nodes) : nodes[k].topic /= "topic"
    /\ \E i \in 1..Len(edges) : edges[i].edge_type = "BRANCHES_FROM" /\ edges[i].confidence = 100
    /\ Len(edges) >= 2

\* C36: on every graph built by insertions, acyclic or not, also with edges of
\* different kinds between the same two nodes, linearize returns every node id exactly
\* once and no other id
C36_Permutation ==
    last = "linearize" =>
        /\ Len(order) = Len(nodes)
        /\ \A id \in NodeIdsOf(nodes) : Cardinality({i \in 1..Len(order) : order[i] = id}) = 1
        /\ \A i \in 1..Len(order) : order[i] \in NodeIdsOf(nodes)

\* a cyclic graph with two edges of different kinds between the same two nodes has
\* been linearized
C36_Witness ==
    /\ last = "linearize"
    /\ Len(nodes) = 2
    /\ HasCycle(nodes, edges)
    /\ \E i, j \in 1..Len(edges) :
           /\ edges[i].from_node_id = edges[j].from_node_id
           /\ edges[i].to_node_id = edges[j].to_node_id
           /\ edges[i].edge_type /= edges[j].edge_type
           /\ edges[i].from_node_id /= edges[i].to_node_id
    /\ Len(order) = 2

\* an acyclic graph with two edges of different kinds between the same two nodes has
\* been linearized by the topological sort
C36_WitnessAcyclic ==
    /\ last = "linearize"
    /\ Len(nodes) = 3
    /\ ~HasCycle(nodes, edges)
    /\ Len(edges) = 2
    /\ edges[1].from_node_id = edges[2].from_node_id
    /\ edges[1].to_node_id = edges[2].to_node_id
    /\ edges[1].from_node_id /= edges[1].to_node_id
    /\ Len(order) = 3

\* C37: whatever the strategy and max_branches >= 0, select_branches selects no more
\* than max_branches candidates, and exactly max_branches when there are more
\* candidates than that
C37_AtMostMaxBranches ==
    SelReturned =>
        /\ Len(selection.selected) <= selection.max_branches
        /\ Len(selection.candidates) > selection.max_branches =>
               Len(selection.selected) = selection.max_branches

\* C38: for the chronologically latest node of a graph, the CONTRADICTS edges the
\* incremental inference returns are the CONTRADICTS edges with that node that the
\* full inference returns: same ends, same direction, same confidence
C38_IncrementalAgreesWithFull ==
    last = "infer_both_ways" =>
        Range(ret.incremental)
            = {e \in Range(ret.full) : ret.node_id \in {e.from_node_id, e.to_node_id}}

\* a call of process_branch that raised for its parent changed nothing: the graph in
\* memory, the graph file, the transcript and the position of the session are as before
RaisedForMissingParent ==
    (last' = "process_branch" /\ ret' = "ValueError: parent not found")
        => UNCHANGED <<nodes, edges, metadata, file, transcript, sess>>

\* the debate of a branch, where the generator is called, runs only for a parent that
\* is in the graph
DebateHasParent ==
    (sess.pc = "debating" /\ sess.call = "process_branch") => sess.parent \in NodeIdsOf(nodes)

\* C39: process_branch with a parent_node_id that is not in the graph raises before
\* any generator call and leaves the graph in memory and the graph file unchanged
C39_MissingParentRaisesFirst == [][RaisedForMissingParent /\ DebateHasParent']_vars

\* a call for a missing parent has raised on a session with a stored graph
C39_Witness ==
    /\ last = "process_branch"
    /\ ret = "ValueError: parent not found"
    /\ Len(nodes) >= 2
    /\ file /= NoFile
    /\ sess.pc = "idle"

\* C40: a graph restored by DebateDAG.load from a graph file has no two edges with
\* the same (from, to, kind) and no edge with an end that is not a node, and this stays
\* so through the insertions that follow on the resumed session
C40_RestoredGraphKeepsInvariants ==
    last /= "init" => NoDuplicateEdges(edges) /\ EndpointsExist(nodes, edges)

============================================================================
